---- MODULE Spec2Model ----
(***************************************************************************)
(* Model of scry's log-state engine (src/src/app.rs, AppState) and of the  *)
(* key handling of the session loop (src/src/main.rs, run_tui).            *)
(*                                                                         *)
(* A line of text is a sequence of characters, a character a one-element   *)
(* string.  Indices are 0-based as in the Rust code: At(buf, i) is buf[i]. *)
(* Option<T> is a sequence of length 0 (None) or 1 (Some(x)).              *)
(***************************************************************************)
EXTENDS Integers, Sequences, FiniteSets, TLC

VARIABLES
    log_buffer,        \* AppState.log_buffer : Vec<String>
    scroll_offset,     \* AppState.scroll_offset : usize
    selected_index,    \* AppState.selected_index : Option<usize>
    filter_text,       \* AppState.filter_text : Option<String>
    filtered_indices,  \* AppState.filtered_indices : Vec<usize>
    last_op,           \* history: the operation that produced this state
    appended,          \* history: every line passed to add_log, in call order
    \* the keyboard reader thread of spawn_keyboard_reader and /dev/tty
    tty_in,            \* bytes typed at the terminal and not yet read
    tty_closed,        \* the device is closed: a read with no byte left fails
    tty_mode,          \* the termios flags of the device that are set
    original_termios,  \* Option: the mode the reader saved before changing it
    kb_channel,        \* events sent on tx and not yet received
    dec_pc,            \* where the reader thread is
    typed,             \* history: the chunks of bytes typed, in order
    dec_read,          \* history: the bytes the last loop iteration read
    dec_sent,          \* history: the events the last loop iteration sent
    \* run_tui: the session loop and the stdin reader task
    stdin_is_tty,      \* atty::is(Stdin), fixed at startup
    raw_mode_enabled,  \* enable_raw_mode().is_ok()
    crossterm_saved,   \* Option: the mode enable_raw_mode saved for disable_raw_mode
    keyboard_rx,       \* keyboard_rx.is_some()
    should_quit,       \* the loop's local flag
    should_quit_signal,\* the flag the ctrlc handler sets
    loop_pc,           \* where run_tui is
    log_channel,       \* lines sent on log_tx and not yet received
    stdin_in,          \* lines of stdin not yet read
    reader_pc,         \* where the stdin reader task is
    term_events,       \* key presses the terminal-event source has not reported yet
    lines_read,        \* history: the lines the reader task read, trimmed
    sources_used,      \* history: the key-event sources the loop took events from
    \* the classifier (analysis) side of run_tui
    active_view,       \* AppState.active_view
    last_model_response, \* AppState.last_model_response, an Option
    analysis_rx,       \* results sent on analysis_tx and not yet received
    analysis_tasks,    \* analysis tasks spawned and not yet finished
    has_api_key,       \* config::has_api_key()
    drawn,             \* history: the view and response the last draw showed
    tool_runs,         \* history: the external tools the last iteration launched
    \* a call of extract_filter_text on its own
    ex_line,           \* the line passed
    ex_token,          \* the Option returned
    ex_pc              \* "none", "called" or "returned"

sessionVars == <<stdin_is_tty, raw_mode_enabled, crossterm_saved, keyboard_rx,
                 should_quit, should_quit_signal, loop_pc, log_channel,
                 stdin_in, reader_pc, term_events, lines_read, sources_used>>

extractVars == <<ex_line, ex_token, ex_pc>>

analysisVars == <<active_view, last_model_response, analysis_rx,
                  analysis_tasks, has_api_key, drawn, tool_runs>>

decoderVars == <<tty_in, tty_closed, tty_mode, original_termios, kb_channel,
                 dec_pc, typed, dec_read, dec_sent>>

vars == <<log_buffer, scroll_offset, selected_index, filter_text,
          filtered_indices, last_op, appended, decoderVars, sessionVars,
          analysisVars, extractVars>>

engine == <<log_buffer, scroll_offset, selected_index, filter_text,
            filtered_indices>>

----------------------------------------------------------------------------
(* Bounds of the model *)

\* The buffer cap of add_log (2000 in src/src/app.rs:39), scaled down.
Capacity == 3

\* Number of add_log calls whose lines the history `appended` records.
MaxAppends == 5

\* Largest amount passed to scroll_up / scroll_down directly
MaxAmount == 2

\* last_op: the name of the operation and its argument: the index passed to
\* select_line, the buffer length before an add_log, the amount passed to
\* scroll_up / scroll_down, 0 otherwise
Op(name, arg) == [op |-> name, arg |-> arg]

----------------------------------------------------------------------------
(* Rust primitives *)

None == <<>>
Some(x) == <<x>>
IsSome(o) == Len(o) = 1
IsNone(o) == Len(o) = 0
Unwrap(o) == o[1]

Min(a, b) == IF a < b THEN a ELSE b

\* usize::saturating_sub
saturating_sub(a, b) == IF a > b THEN a - b ELSE 0

\* v[i] of a Vec, 0-based
At(v, i) == v[i + 1]

\* Iterator::position over a Vec<usize>: index of the first element equal to x
position(v, x) ==
    IF \E k \in 1..Len(v) : v[k] = x
    THEN Some((CHOOSE k \in 1..Len(v) :
                  v[k] = x /\ \A j \in 1..(k - 1) : v[j] # x) - 1)
    ELSE None

----------------------------------------------------------------------------
(* Characters and strings *)

Whitespace == {" ", "\t"}
Letters == {"a", "b", "c", "d", "e", "f", "g", "h", "i", "j", "k", "l", "m",
            "n", "o", "p", "q", "r", "s", "t", "u", "v", "w", "x", "y", "z",
            "W", "1", "2", "e_acute"}
Quote == "\""
Equals == "="

\* char::is_alphanumeric
is_alphanumeric(c) == c \in Letters

\* UTF-8 width of a character: str::len counts bytes
ByteLen(c) == IF c = "e_acute" THEN 2 ELSE 1

\* str::len: the sum of the widths, counted as the (character, byte) pairs
StrLen(s) ==
    Cardinality({p \in (1..Len(s)) \X (1..2) : p[2] <= ByteLen(s[p[1]])})

\* str::contains(pat): pat occurs in line as a contiguous substring
contains(line, pat) ==
    \E i \in 0..(Len(line) - Len(pat)) : SubSeq(line, i + 1, i + Len(pat)) = pat

\* str::find(ch): character position (1-based) of the first ch, as Option
find(s, ch) ==
    IF \E k \in 1..Len(s) : s[k] = ch
    THEN Some(CHOOSE k \in 1..Len(s) : s[k] = ch /\ \A j \in 1..(k - 1) : s[j] # ch)
    ELSE None

\* str::split_whitespace as the sequence of its words: the words of s that
\* start at position `from` or later
RECURSIVE WordsFrom(_, _)
WordsFrom(s, from) ==
    LET starts == {k \in from..Len(s) : s[k] \notin Whitespace} IN
    IF starts = {} THEN <<>>
    ELSE LET start == CHOOSE k \in starts : \A j \in starts : k <= j
             ends  == {k \in start..Len(s) :
                          k = Len(s) \/ s[k + 1] \in Whitespace}
             end   == CHOOSE k \in ends : \A j \in ends : k <= j
         IN <<SubSeq(s, start, end)>> \o WordsFrom(s, end + 1)

split_whitespace(s) == WordsFrom(s, 1)

\* word.chars().take_while(|c| c.is_alphanumeric() || *c == '_' || *c == '-')
take_while_word(w) ==
    LET stops == {k \in 1..Len(w) :
                     ~(is_alphanumeric(w[k]) \/ w[k] = "_" \/ w[k] = "-")}
    IN IF stops = {} THEN w
       ELSE SubSeq(w, 1, (CHOOSE k \in stops : \A j \in stops : k <= j) - 1)

----------------------------------------------------------------------------
(* Filter-token extractor: extract_filter_text *)

\* Upper limit (exclusive) on the byte length of an accepted token
TokenLimit == 100

\* Strategy 1: content between the first two double quotes
QuotedValue(line) ==
    LET start == find(line, Quote) IN
    IF IsNone(start) THEN None
    ELSE LET rest == SubSeq(line, Unwrap(start) + 1, Len(line))
             end  == find(rest, Quote)
         IN IF IsNone(end) THEN None
            ELSE LET value == SubSeq(rest, 1, Unwrap(end) - 1)
                 IN IF value # <<>> /\ StrLen(value) < TokenLimit
                    THEN Some(value) ELSE None

\* Strategy 2: whitespace-delimited token after the first '='
KeyValue(line) ==
    LET eq == find(line, Equals) IN
    IF IsNone(eq) THEN None
    ELSE LET eq_pos == StrLen(SubSeq(line, 1, Unwrap(eq) - 1))
         IN IF eq_pos > 0 /\ eq_pos < StrLen(line) - 1
            THEN LET toks  == split_whitespace(SubSeq(line, Unwrap(eq) + 1, Len(line)))
                     value == IF toks = <<>> THEN <<>> ELSE Head(toks)
                 IN IF value # <<>> /\ StrLen(value) < TokenLimit
                    THEN Some(value) ELSE None
            ELSE None

\* Strategy 3: the first word with an alphanumeric character and len >= 2
IsMeaningful(w) == (\E k \in 1..Len(w) : is_alphanumeric(w[k])) /\ StrLen(w) >= 2

FirstWord(line) ==
    LET words == SelectSeq(split_whitespace(line), IsMeaningful) IN
    IF words = <<>> THEN None
    ELSE LET cleaned == take_while_word(Head(words))
         IN IF StrLen(cleaned) >= 2 THEN Some(cleaned) ELSE None

extract_filter_text(line) ==
    IF IsSome(QuotedValue(line)) THEN QuotedValue(line)
    ELSE IF IsSome(KeyValue(line)) THEN KeyValue(line)
    ELSE FirstWord(line)

----------------------------------------------------------------------------
(* The log-state engine, AppState.  An operation maps a state record to    *)
(* the state record after the call.                                        *)

State == [log_buffer       |-> log_buffer,
          scroll_offset    |-> scroll_offset,
          selected_index   |-> selected_index,
          filter_text      |-> filter_text,
          filtered_indices |-> filtered_indices]

\* AppState::new
new == [log_buffer       |-> <<>>,
        scroll_offset    |-> 0,
        selected_index   |-> None,
        filter_text      |-> None,
        filtered_indices |-> <<>>]

\* self.log_buffer.len() > 2000, with the cap scaled to Capacity
over_capacity_off_by_one(len) == len > Capacity + 1

over_capacity(len) == len > Capacity

\* Vec::remove(0)
remove_first_swap(v) == <<v[Len(v)]>> \o SubSeq(v, 2, Len(v) - 1)

remove_first(v) == Tail(v)

NotRemoved(idx) == idx # 0

\* filtered_indices after an eviction: retain(idx != 0), then idx.saturating_sub(1)
renumber_filtered_no_retain(fi) == [k \in 1..Len(fi) |-> saturating_sub(fi[k], 1)]

renumber_filtered(fi) ==
    IF fi # <<>>
    THEN LET kept == SelectSeq(fi, NotRemoved)
         IN [k \in 1..Len(kept) |-> saturating_sub(kept[k], 1)]
    ELSE fi

\* selected_index after an eviction, cleared at 0 but never decremented
renumber_selected_keep(sel) ==
    IF IsSome(sel)
    THEN (IF Unwrap(sel) = 0 THEN None ELSE sel)
    ELSE sel

\* selected_index after an eviction
renumber_selected(sel) ==
    IF IsSome(sel)
    THEN (IF Unwrap(sel) = 0 THEN None
          ELSE IF Unwrap(sel) > 0 THEN Some(Unwrap(sel) - 1)
          ELSE sel)
    ELSE sel

\* scroll_offset after an eviction
adjust_scroll_keep(offset) == offset

adjust_scroll(offset) ==
    IF offset > 0 THEN saturating_sub(offset, 1) ELSE offset

\* add_log whose non-evicting branch pushes the index without testing the line
add_log_push_always(st, line) ==
    LET new_index == Len(st.log_buffer)
        pushed    == Append(st.log_buffer, line)
    IN IF over_capacity(Len(pushed))
       THEN [st EXCEPT
               !.log_buffer = remove_first(pushed),
               !.filtered_indices = renumber_filtered(st.filtered_indices),
               !.selected_index = renumber_selected(st.selected_index),
               !.scroll_offset = adjust_scroll(st.scroll_offset)]
       ELSE IF IsSome(st.filter_text) /\ Unwrap(st.filter_text) # <<>>
            THEN [st EXCEPT !.log_buffer = pushed,
                            !.filtered_indices = Append(@, new_index)]
            ELSE [st EXCEPT !.log_buffer = pushed]

add_log(st, line) ==
    LET new_index == Len(st.log_buffer)
        pushed    == Append(st.log_buffer, line)
    IN IF over_capacity(Len(pushed))
       THEN [st EXCEPT
               !.log_buffer = remove_first(pushed),
               !.filtered_indices = renumber_filtered(st.filtered_indices),
               !.selected_index = renumber_selected(st.selected_index),
               !.scroll_offset = adjust_scroll(st.scroll_offset)]
       ELSE IF /\ IsSome(st.filter_text)
               /\ Unwrap(st.filter_text) # <<>>
               /\ contains(At(pushed, new_index), Unwrap(st.filter_text))
            THEN [st EXCEPT !.log_buffer = pushed,
                            !.filtered_indices = Append(@, new_index)]
            ELSE [st EXCEPT !.log_buffer = pushed]

scroll_up(st, amount) ==
    IF st.scroll_offset > 0
    THEN [st EXCEPT !.scroll_offset = saturating_sub(st.scroll_offset, amount)]
    ELSE st

\* scroll_down clamping to max_lines instead of max_lines - 1
scroll_down_no_sub(st, amount, max_lines) ==
    IF st.scroll_offset < max_lines
    THEN [st EXCEPT !.scroll_offset = Min(st.scroll_offset + amount, max_lines)]
    ELSE st

scroll_down(st, amount, max_lines) ==
    LET max_scroll == saturating_sub(max_lines, 1) IN
    IF st.scroll_offset < max_scroll
    THEN [st EXCEPT !.scroll_offset = Min(st.scroll_offset + amount, max_scroll)]
    ELSE st

get_display_count(st) ==
    IF st.filtered_indices # <<>> THEN Len(st.filtered_indices)
    ELSE Len(st.log_buffer)

\* line.contains(filter) of the scan in update_filter
line_matches_whole(line, filter) == line = filter

line_matches(line, filter) == contains(line, filter)

\* log_buffer.iter().enumerate().filter_map(..).collect(): the indices, ascending,
\* of the lines of buf from position k on that match pat
RECURSIVE MatchesFrom(_, _, _)
MatchesFrom(buf, pat, k) ==
    IF k > Len(buf) THEN <<>>
    ELSE IF line_matches(buf[k], pat) THEN <<k - 1>> \o MatchesFrom(buf, pat, k + 1)
         ELSE MatchesFrom(buf, pat, k + 1)

\* update_filter whose scan skips the first line of the buffer
update_filter_skip_first(st) ==
    IF IsSome(st.filter_text)
    THEN IF Unwrap(st.filter_text) = <<>>
         THEN [st EXCEPT !.filtered_indices = <<>>]
         ELSE [st EXCEPT
                 !.filtered_indices = MatchesFrom(st.log_buffer, Unwrap(st.filter_text), 2),
                 !.scroll_offset = 0]
    ELSE [st EXCEPT !.filtered_indices = <<>>]

\* update_filter that extends filtered_indices where the code replaces it
update_filter_extend(st) ==
    IF IsSome(st.filter_text)
    THEN IF Unwrap(st.filter_text) = <<>>
         THEN [st EXCEPT !.filtered_indices = <<>>]
         ELSE [st EXCEPT
                 !.filtered_indices = @ \o MatchesFrom(st.log_buffer, Unwrap(st.filter_text), 1),
                 !.scroll_offset = 0]
    ELSE [st EXCEPT !.filtered_indices = <<>>]

update_filter(st) ==
    IF IsSome(st.filter_text)
    THEN IF Unwrap(st.filter_text) = <<>>
         THEN [st EXCEPT !.filtered_indices = <<>>]
         ELSE [st EXCEPT
                 !.filtered_indices = MatchesFrom(st.log_buffer, Unwrap(st.filter_text), 1),
                 !.scroll_offset = 0]
    ELSE [st EXCEPT !.filtered_indices = <<>>]

\* select_line with the selection assigned before the range check
select_line_set_first(st, index) ==
    IF index < Len(st.log_buffer)
    THEN update_filter([st EXCEPT
             !.selected_index = Some(index),
             !.filter_text = extract_filter_text(At(st.log_buffer, index))])
    ELSE [st EXCEPT !.selected_index = Some(index)]

\* select_line that drops the selection and the filter on an index out of range
select_line_reset(st, index) ==
    IF index < Len(st.log_buffer)
    THEN update_filter([st EXCEPT
             !.selected_index = Some(index),
             !.filter_text = extract_filter_text(At(st.log_buffer, index))])
    ELSE [st EXCEPT !.selected_index = None,
                    !.filter_text = None,
                    !.filtered_indices = <<>>]

select_line(st, index) ==
    IF index < Len(st.log_buffer)
    THEN update_filter([st EXCEPT
             !.selected_index = Some(index),
             !.filter_text = extract_filter_text(At(st.log_buffer, index))])
    ELSE st

\* clear_selection that also resets the scroll offset
clear_selection_reset_scroll(st) ==
    [st EXCEPT !.selected_index = None,
               !.filter_text = None,
               !.filtered_indices = <<>>,
               !.scroll_offset = 0]

clear_selection(st) ==
    [st EXCEPT !.selected_index = None,
               !.filter_text = None,
               !.filtered_indices = <<>>]

\* get_display_logs: the (index, line) pairs to show
get_display_logs(st) ==
    IF st.filtered_indices # <<>>
    THEN [k \in 1..Len(st.filtered_indices) |->
             <<st.filtered_indices[k], At(st.log_buffer, st.filtered_indices[k])>>]
    ELSE [k \in 1..Len(st.log_buffer) |-> <<k - 1, st.log_buffer[k]>>]

----------------------------------------------------------------------------
(* Key handling of the session loop (run_tui).  The arms for 'q', 'a' and  *)
(* Ctrl+C do not touch the engine state and are not part of this operator. *)

Keys == {"Up", "Down", "PageUp", "PageDown", "Home", "End", "f", "c", "Esc"}

\* follow_selection that always clamps the raw index, filter or no filter
follow_selection_raw_index(st, target) ==
    [st EXCEPT !.scroll_offset =
        Min(target, saturating_sub(get_display_count(st), 1))]

\* "Update scroll to follow selection" after select_line(target)
follow_selection(st, target) ==
    LET display_count == get_display_count(st)
        display_idx   == position(st.filtered_indices, target)
    IN IF IsSome(display_idx)
       THEN [st EXCEPT !.scroll_offset = Unwrap(display_idx)]
       ELSE IF st.filtered_indices = <<>>
            THEN [st EXCEPT !.scroll_offset =
                     Min(target, saturating_sub(display_count, 1))]
            ELSE st

handle_key(st, key) ==
    CASE key = "Up" ->
           IF IsSome(st.selected_index)
           THEN LET selected == Unwrap(st.selected_index) IN
                IF selected > 0
                THEN follow_selection(select_line(st, selected - 1), selected - 1)
                ELSE st
           ELSE scroll_up(st, 1)
      [] key = "Down" ->
           IF IsSome(st.selected_index)
           THEN LET selected == Unwrap(st.selected_index) IN
                IF selected < saturating_sub(Len(st.log_buffer), 1)
                THEN follow_selection(select_line(st, selected + 1), selected + 1)
                ELSE st
           ELSE scroll_down(st, 1, get_display_count(st))
      [] key = "PageUp" -> scroll_up(st, 10)
      [] key = "PageDown" -> scroll_down(st, 10, get_display_count(st))
      [] key = "Home" -> [st EXCEPT !.scroll_offset = 0, !.selected_index = None]
      [] key = "End" ->
           LET display_count == get_display_count(st) IN
           IF display_count > 0
           THEN [st EXCEPT !.scroll_offset = saturating_sub(display_count, 1)]
           ELSE st
      [] key = "f" ->
           IF IsSome(st.selected_index) THEN clear_selection(st)
           ELSE IF st.log_buffer # <<>>
                THEN select_line(st, Min(st.scroll_offset,
                                         saturating_sub(Len(st.log_buffer), 1)))
                ELSE st
      [] key = "c" -> clear_selection(st)
      [] key = "Esc" -> clear_selection(st)
      [] OTHER -> st

----------------------------------------------------------------------------
(* The keyboard reader: spawn_keyboard_reader (src/src/keyboard.rs).  A    *)
(* byte is its number; a key event is a record of the KeyCode, the         *)
(* character of KeyCode::Char and the CONTROL modifier.  Every event the   *)
(* reader builds has kind Press.                                           *)

KeyEvent(code, ch, ctrl) == [code |-> code, ch |-> ch, ctrl |-> ctrl]

KeyUp       == KeyEvent("Up", "", FALSE)
KeyDown     == KeyEvent("Down", "", FALSE)
KeyPageUp   == KeyEvent("PageUp", "", FALSE)
KeyPageDown == KeyEvent("PageDown", "", FALSE)
KeyEsc      == KeyEvent("Esc", "", FALSE)
KeyChar(ch) == KeyEvent("Char", ch, FALSE)
KeyCtrlC    == KeyEvent("Char", "c", TRUE)

\* "Parse simple keypresses": match byte { .. }, as the events sent
simple_keypress_lower_only(byte) ==
    CASE byte = 113 -> <<KeyChar("q")>>
      [] byte = 97 -> <<KeyChar("a")>>
      [] byte = 102 -> <<KeyChar("f")>>
      [] byte = 99 -> <<KeyChar("c")>>
      [] byte = 27 -> <<KeyEsc>>
      [] byte = 3 -> <<KeyCtrlC>>
      [] OTHER -> <<>>

simple_keypress(byte) ==
    CASE byte \in {113, 81} -> <<KeyChar("q")>>     \* b'q' | b'Q'
      [] byte \in {97, 65} -> <<KeyChar("a")>>      \* b'a' | b'A'
      [] byte \in {102, 70} -> <<KeyChar("f")>>     \* b'f' | b'F'
      [] byte \in {99, 67} -> <<KeyChar("c")>>      \* b'c' | b'C'
      [] byte = 27 -> <<KeyEsc>>                    \* 27 => ESC
      [] byte = 3 -> <<KeyCtrlC>>                   \* 3 => Ctrl+C (ETX)
      [] OTHER -> <<>>

\* match third_byte[0] { 0x41 => Up, 0x42 => Down, .. }, for the arrow arms
arrow_key_swapped(third) ==
    CASE third = 65 -> <<KeyDown>>
      [] third = 66 -> <<KeyUp>>
      [] OTHER -> <<>>

arrow_key(third) ==
    CASE third = 65 -> <<KeyUp>>
      [] third = 66 -> <<KeyDown>>
      [] OTHER -> <<>>

\* the page arms: 0x35 / 0x36, then a fourth byte that must be 0x7e
page_key(third, fourth) ==
    IF fourth = 126
    THEN (IF third = 53 THEN <<KeyPageUp>> ELSE <<KeyPageDown>>)
    ELSE <<>>

Iteration(consumed, sent, brk) == [consumed |-> consumed, sent |-> sent, brk |-> brk]

\* decode_step whose failed first read does not break the loop
decode_step_no_break(stream) ==
    IF Len(stream) = 0 THEN Iteration(0, <<>>, FALSE)
    ELSE IF stream[1] = 27
    THEN IF Len(stream) < 2 \/ stream[2] # 91
         THEN Iteration(Min(2, Len(stream)), <<>>, FALSE)
         ELSE IF Len(stream) < 3 THEN Iteration(2, <<>>, FALSE)
         ELSE IF stream[3] \in {65, 66}
              THEN Iteration(3, arrow_key(stream[3]), FALSE)
         ELSE IF stream[3] \in {53, 54}
              THEN IF Len(stream) < 4 THEN Iteration(3, <<>>, FALSE)
                   ELSE Iteration(4, page_key(stream[3], stream[4]), FALSE)
         ELSE Iteration(3, <<>>, FALSE)
    ELSE Iteration(1, simple_keypress(stream[1]), FALSE)

\* One iteration of the read loop on the bytes `stream`, when a read_exact
\* that finds no byte left fails (the device is closed).
decode_step(stream) ==
    IF Len(stream) = 0 THEN Iteration(0, <<>>, TRUE)             \* Err(_) => break
    ELSE IF stream[1] = 27
    THEN IF Len(stream) < 2 \/ stream[2] # 91
         THEN Iteration(Min(2, Len(stream)), <<>>, FALSE)
         ELSE IF Len(stream) < 3 THEN Iteration(2, <<>>, FALSE)
         ELSE IF stream[3] \in {65, 66}
              THEN Iteration(3, arrow_key(stream[3]), FALSE)
         ELSE IF stream[3] \in {53, 54}
              THEN IF Len(stream) < 4 THEN Iteration(3, <<>>, FALSE)
                   ELSE Iteration(4, page_key(stream[3], stream[4]), FALSE)
         ELSE Iteration(3, <<>>, FALSE)
    ELSE Iteration(1, simple_keypress(stream[1]), FALSE)

\* the number of bytes the iteration reads when none of its reads fails
bytes_wanted(stream) ==
    IF Len(stream) = 0 \/ stream[1] # 27 THEN 1
    ELSE IF Len(stream) < 2 \/ stream[2] # 91 THEN 2
    ELSE IF Len(stream) < 3 \/ stream[3] \notin {53, 54} THEN 3
    ELSE 4

\* termios flags: the two the reader clears, and the rest cfmakeraw clears
TermiosFlags == {"ICANON", "ECHO", "ISIG"}

\* c_lflag &= !(ICANON | ECHO)
reader_mode_keep_echo(mode) == mode \ {"ICANON"}

reader_mode(mode) == mode \ {"ICANON", "ECHO"}

\* the reader thread is not spawned and nothing is typed
NoDecoder ==
    /\ tty_in = <<>>
    /\ tty_closed = FALSE
    /\ tty_mode = TermiosFlags
    /\ original_termios = None
    /\ kb_channel = <<>>
    /\ dec_pc = "none"
    /\ typed = <<>>
    /\ dec_read = <<>>
    /\ dec_sent = <<>>

\* File::open("/dev/tty"), tcgetattr, tcsetattr: each can fail
StartOutcomes == {"ok", "open_failed", "tcgetattr_failed", "tcsetattr_failed"}

\* DecoderStart whose failure takes the session down with the thread
DecoderStart_abort ==
    /\ dec_pc = "spawned"
    /\ \E outcome \in StartOutcomes :
          IF outcome = "ok"
          THEN /\ original_termios' = Some(tty_mode)
               /\ tty_mode' = reader_mode(tty_mode)
               /\ dec_pc' = "reading"
               /\ UNCHANGED sessionVars
          ELSE /\ dec_pc' = "exited"
               /\ loop_pc' = "exited"
               /\ UNCHANGED <<original_termios, tty_mode, stdin_is_tty,
                              raw_mode_enabled, crossterm_saved, keyboard_rx,
                              should_quit, should_quit_signal, log_channel,
                              stdin_in, reader_pc, term_events, lines_read,
                              sources_used>>
    /\ UNCHANGED <<tty_in, tty_closed, kb_channel, typed, dec_read, dec_sent>>
    /\ last_op' = Op("decoder_start", 0)
    /\ UNCHANGED <<engine, appended, analysisVars, extractVars>>

DecoderStart ==
    /\ dec_pc = "spawned"
    /\ \E outcome \in StartOutcomes :
          IF outcome = "ok"
          THEN /\ original_termios' = Some(tty_mode)
               /\ tty_mode' = reader_mode(tty_mode)
               /\ dec_pc' = "reading"
          ELSE /\ dec_pc' = "exited"
               /\ UNCHANGED <<original_termios, tty_mode>>
    /\ UNCHANGED <<tty_in, tty_closed, kb_channel, typed, dec_read, dec_sent>>
    /\ last_op' = Op("decoder_start", 0)
    /\ UNCHANGED <<engine, appended, sessionVars, analysisVars, extractVars>>

\* One iteration of the read loop; it blocks while the device is open and
\* has fewer bytes than the iteration reads.  On a failed first read the loop
\* breaks and the saved mode is set again.
DecoderRead ==
    /\ dec_pc = "reading"
    /\ tty_closed \/ Len(tty_in) >= bytes_wanted(tty_in)
    /\ LET it == decode_step(tty_in) IN
       /\ tty_in' = SubSeq(tty_in, it.consumed + 1, Len(tty_in))
       /\ kb_channel' = kb_channel \o it.sent
       /\ dec_read' = SubSeq(tty_in, 1, it.consumed)
       /\ dec_sent' = it.sent
       /\ IF it.brk
          THEN /\ tty_mode' = Unwrap(original_termios)
               /\ dec_pc' = "exited"
          ELSE UNCHANGED <<tty_mode, dec_pc>>
    /\ UNCHANGED <<tty_closed, original_termios, typed>>
    /\ last_op' = Op("decoder_read", 0)
    /\ UNCHANGED <<engine, appended, sessionVars, analysisVars, extractVars>>

\* The terminal device is closed (or a read of it fails from now on)
TtyClose ==
    /\ ~tty_closed
    /\ tty_closed' = TRUE
    /\ UNCHANGED <<tty_in, tty_mode, original_termios, kb_channel, dec_pc,
                   typed, dec_read, dec_sent>>
    /\ last_op' = Op("tty_close", 0)
    /\ UNCHANGED <<engine, appended, sessionVars, analysisVars, extractVars>>

----------------------------------------------------------------------------
(* What is typed at the terminal *)

\* the key presses of the logical key set
LogicalKeys == {"q", "a", "f", "c", "Up", "Down", "PageUp", "PageDown",
                "Esc", "Ctrl+c"}

\* the bytes a terminal sends for a key press
Encode(key) ==
    CASE key = "q" -> <<113>>
      [] key = "a" -> <<97>>
      [] key = "f" -> <<102>>
      [] key = "c" -> <<99>>
      [] key = "Up" -> <<27, 91, 65>>             \* ESC [ A
      [] key = "Down" -> <<27, 91, 66>>           \* ESC [ B
      [] key = "PageUp" -> <<27, 91, 53, 126>>    \* ESC [ 5 ~
      [] key = "PageDown" -> <<27, 91, 54, 126>>  \* ESC [ 6 ~
      [] key = "Esc" -> <<27>>
      [] key = "Ctrl+c" -> <<3>>

\* the event the terminal-event source reports for a key press
terminal_event(key) ==
    CASE key = "Up" -> KeyUp
      [] key = "Down" -> KeyDown
      [] key = "PageUp" -> KeyPageUp
      [] key = "PageDown" -> KeyPageDown
      [] key = "Esc" -> KeyEsc
      [] key = "Ctrl+c" -> KeyCtrlC
      [] OTHER -> KeyChar(key)

\* other bytes a terminal can send: the upper-case letters, a byte that is no
\* key of the viewer, and escape sequences the reader does not know
RawChunks == {<<81>>, <<65>>, <<70>>, <<67>>,   \* Q A F C
              <<120>>,                          \* x
              <<27, 91, 57>>,                   \* ESC [ 9
              <<27, 91, 72>>,                   \* ESC [ H (Home)
              <<27, 91, 53, 65>>,               \* ESC [ 5 A
              <<27, 91>>,                       \* ESC [
              <<27, 91, 49, 59, 53, 65>>}       \* ESC [ 1 ; 5 A (Ctrl+Up)

Chunks == {Encode(key) : key \in LogicalKeys} \cup RawChunks

\* Number of chunks typed
MaxTyped == 2

SeqsUpTo(S, n) == UNION {[1..k -> S] : k \in 0..n}

RECURSIVE Flatten(_)
Flatten(chunks) ==
    IF chunks = <<>> THEN <<>> ELSE Head(chunks) \o Flatten(Tail(chunks))

----------------------------------------------------------------------------
(* run_tui is not running *)

\* ViewKind
ViewKind(kind, tool) == [kind |-> kind, tool |-> tool]
PlainView == ViewKind("Plain", "")
KeyValueView == ViewKind("KeyValue", "")
JsonView == ViewKind("Json", "")
ExternalToolView(tool_name) == ViewKind("ExternalTool", tool_name)

\* AppState::new: the Plain view, no response; nothing drawn yet
NoAnalysis ==
    /\ active_view = PlainView
    /\ last_model_response = None
    /\ analysis_rx = <<>>
    /\ analysis_tasks = 0
    /\ drawn = None
    /\ tool_runs = <<>>

\* extract_filter_text is not being called on its own
NoExtract ==
    /\ ex_line = <<>>
    /\ ex_token = None
    /\ ex_pc = "none"

\* run_tui has not been entered
IdleSession ==
    /\ NoAnalysis
    /\ stdin_is_tty = FALSE
    /\ raw_mode_enabled = FALSE
    /\ crossterm_saved = None
    /\ keyboard_rx = FALSE
    /\ should_quit = FALSE
    /\ should_quit_signal = FALSE
    /\ loop_pc = "none"
    /\ log_channel = <<>>
    /\ stdin_in = <<>>
    /\ reader_pc = "none"
    /\ term_events = <<>>
    /\ lines_read = <<>>
    /\ sources_used = {}

NoSession == IdleSession /\ has_api_key = FALSE

----------------------------------------------------------------------------
(* Input lines *)

LineA1      == <<"a", "=", "1">>                                \* a=1
LineB2      == <<"b", "=", "2">>                                \* b=2
LineA1Extra == <<"a", "=", "1", " ", "e", "x", "t", "r", "a">>  \* a=1 extra
LineEmpty   == <<>>                                             \* (empty line)

Lines == {LineA1, LineB2, LineA1Extra, LineEmpty}

----------------------------------------------------------------------------
(* The state machine *)

Set(st) ==
    /\ log_buffer' = st.log_buffer
    /\ scroll_offset' = st.scroll_offset
    /\ selected_index' = st.selected_index
    /\ filter_text' = st.filter_text
    /\ filtered_indices' = st.filtered_indices

\* AppState::new, nothing appended yet
EngineNew ==
    /\ log_buffer = new.log_buffer
    /\ scroll_offset = new.scroll_offset
    /\ selected_index = new.selected_index
    /\ filter_text = new.filter_text
    /\ filtered_indices = new.filtered_indices
    /\ last_op = Op("new", 0)
    /\ appended = <<>>

Init ==
    /\ EngineNew
    /\ NoDecoder
    /\ NoSession
    /\ NoExtract

\* The session loop drains one line of the channel into add_log
AddLog ==
    \E line \in Lines :
        /\ Set(add_log(State, line))
        /\ last_op' = Op("add_log", Len(log_buffer))
        /\ UNCHANGED <<appended, decoderVars, sessionVars, analysisVars, extractVars>>

\* select_line(index), for every index a caller can pass
SelectLine ==
    \E index \in 0..Capacity :
        /\ Set(select_line(State, index))
        /\ last_op' = Op("select_line", index)
        /\ UNCHANGED <<appended, decoderVars, sessionVars, analysisVars, extractVars>>

ClearSelection ==
    /\ Set(clear_selection(State))
    /\ last_op' = Op("clear_selection", 0)
    /\ UNCHANGED <<appended, decoderVars, sessionVars, analysisVars, extractVars>>

\* The session loop handles one key event
HandleKey ==
    \E key \in Keys :
        /\ Set(handle_key(State, key))
        /\ last_op' = Op(key, 0)
        /\ UNCHANGED <<appended, decoderVars, sessionVars, analysisVars, extractVars>>

\* scroll_up(amount), for the amounts a caller can pass
ScrollUp ==
    \E amount \in 0..MaxAmount :
        /\ Set(scroll_up(State, amount))
        /\ last_op' = Op("scroll_up", amount)
        /\ UNCHANGED <<appended, decoderVars, sessionVars, analysisVars, extractVars>>

\* scroll_down(amount, display_count)
ScrollDown ==
    \E amount \in 0..MaxAmount :
        /\ Set(scroll_down(State, amount, get_display_count(State)))
        /\ last_op' = Op("scroll_down", amount)
        /\ UNCHANGED <<appended, decoderVars, sessionVars, analysisVars, extractVars>>

Next == AddLog \/ SelectLine \/ ClearSelection \/ HandleKey \/ ScrollUp \/ ScrollDown

Spec == Init /\ [][Next]_vars

\* The engine as the session loop drives it, with or without an API key set
InitKeys ==
    /\ EngineNew
    /\ NoDecoder
    /\ IdleSession
    /\ has_api_key \in BOOLEAN
    /\ NoExtract

\* Lines arrive and keys are handled
NextKeys == AddLog \/ HandleKey

SpecKeys == InitKeys /\ [][NextKeys]_vars

\* add_log calls only, each recorded in the history
AppendRecorded ==
    \E line \in Lines :
        /\ Len(appended) < MaxAppends
        /\ Set(add_log(State, line))
        /\ last_op' = Op("add_log", Len(log_buffer))
        /\ appended' = Append(appended, line)
        /\ UNCHANGED <<decoderVars, sessionVars, analysisVars, extractVars>>

NextAppend == AppendRecorded

SpecAppend == Init /\ [][NextAppend]_vars

\* The reader thread alone, on every stream of at most MaxTyped chunks
InitDecoder ==
    /\ EngineNew
    /\ \E chunks \in SeqsUpTo(Chunks, MaxTyped) :
          /\ typed = chunks
          /\ tty_in = Flatten(chunks)
    /\ tty_closed = FALSE
    /\ tty_mode = TermiosFlags
    /\ original_termios = None
    /\ kb_channel = <<>>
    /\ dec_pc = "spawned"
    /\ dec_read = <<>>
    /\ dec_sent = <<>>
    /\ NoSession
    /\ NoExtract

NextDecoder == DecoderStart \/ DecoderRead \/ TtyClose

SpecDecoder == InitDecoder /\ [][NextDecoder]_vars

\* The reader thread is scheduled: an iteration whose reads can return is run.
SpecDecoderLive == InitDecoder /\ [][NextDecoder]_vars /\ WF_vars(DecoderRead)

----------------------------------------------------------------------------
(* run_tui: the stdin reader task, the session loop and the way out *)

\* Lines the log channel holds (1000 in the code, scaled down).
ChannelCap == 1

\* Longest standard input, in lines.
MaxStdin == 2

\* Most key presses in one session.
MaxKeys == 1

\* "Waiting for log input on stdin..."
WaitingMessage ==
    <<"W", "a", "i", "t", "i", "n", "g", " ", "f", "o", "r", " ", "l", "o", "g",
      " ", "i", "n", "p", "u", "t", " ", "o", "n", " ", "s", "t", "d", "i", "n",
      ".", ".", ".">>

\* One read_line of standard input: Ok(n) with the text read, terminator
\* included, or Err (the bytes are not UTF-8).
ReadOk(text) == [ok |-> TRUE, text |-> text]
ReadErr == [ok |-> FALSE, text |-> <<>>]

StdinItems == {ReadOk(LineA1 \o <<"\n">>), ReadOk(<<"\r", "\n">>), ReadErr}

\* str::trim_end_matches(ch)
RECURSIVE trim_end_matches(_, _)
trim_end_matches(s, ch) ==
    IF s # <<>> /\ s[Len(s)] = ch
    THEN trim_end_matches(SubSeq(s, 1, Len(s) - 1), ch)
    ELSE s

\* line.trim_end_matches('\n').trim_end_matches('\r')
trimmed(line) == trim_end_matches(trim_end_matches(line, "\n"), "\r")

\* A send that drops the line when the channel is full (try_send).
channel_send_try(channel, line) ==
    [ready   |-> TRUE,
     channel |-> IF Len(channel) < ChannelCap THEN Append(channel, line)
                 ELSE channel]

\* tx.blocking_send(line) / tx.send(line).await on the bounded channel: the
\* sender waits while the channel is full, then the line is queued.
channel_send(channel, line) ==
    [ready   |-> Len(channel) < ChannelCap,
     channel |-> Append(channel, line)]

\* The choice of source inverted.
choose_keyboard_rx_inverted(is_tty) == is_tty

\* keyboard_rx is Some exactly when stdin is not a terminal.
choose_keyboard_rx(is_tty) == ~is_tty

\* crossterm's enable_raw_mode on a terminal in `mode`: every flag cleared.
raw_mode(mode) == {}

\* crossterm's disable_raw_mode: puts back the mode a successful
\* enable_raw_mode saved, and does nothing when there is none.
disable_raw_mode(saved, mode) == IF IsSome(saved) THEN Unwrap(saved) ELSE mode

\* Results the analysis channel holds.
AnalysisCap == 10

\* "API key not set. Run 'scry key YOUR_API_KEY' to set it."
NoKeyMessage == <<"API key not set. Run 'scry key YOUR_API_KEY' to set it.">>

\* "Calling OpenAI API (gpt-4o-mini) to analyze logs..."
CallingMessage == <<"Calling OpenAI API (gpt-4o-mini) to analyze logs...">>

\* format!("OpenAI API error: {}", e)
ErrorMessage(e) == <<"OpenAI API error: ", e>>

\* format!("OpenAI API ({}) -> Selected view: {}", model_name, view_name)
SelectedMessage(view_name) ==
    <<"OpenAI API (gpt-4o-mini) -> Selected view: ", view_name>>

\* The external tools of the registry that can be named.
ToolNames == {"jless"}

\* Error descriptions analyze_logs can return.
Errors == {"Failed to send request to OpenAI API", "Unknown view type: Table"}

\* What analyze_logs returns: Ok((view_kind, summary)) or Err(e).
AnalyzeOk(view, summary) == [ok |-> TRUE, view |-> view, summary |-> summary]
AnalyzeErr(e) == [ok |-> FALSE, error |-> e]

AnalyzeOutcomes ==
    {AnalyzeOk(PlainView, SelectedMessage("Plain")),
     AnalyzeOk(KeyValueView, SelectedMessage("KeyValue")),
     AnalyzeOk(JsonView, SelectedMessage("Json"))}
    \cup {AnalyzeOk(ExternalToolView(t), SelectedMessage("External: " \o t)) : t \in ToolNames}
    \cup {AnalyzeOk(JsonView, SelectedMessage("Json (" \o t \o " not available)")) :
             t \in ToolNames}
    \cup {AnalyzeErr(e) : e \in Errors}

\* A (view_kind, summary) pair on the analysis channel.
Result(view, summary) == [view |-> view, summary |-> summary]

\* The task's match with the Err arm keeping a structured view.
task_send_err_as_json(outcome) ==
    IF outcome.ok THEN Result(outcome.view, outcome.summary)
    ELSE Result(JsonView, ErrorMessage(outcome.error))

\* The analysis task's match on analyze_logs(&logs).await: what it sends.
task_send(outcome) ==
    IF outcome.ok THEN Result(outcome.view, outcome.summary)
    ELSE Result(PlainView, ErrorMessage(outcome.error))

\* What happens when the loop launches an external tool, and whether the
\* enable_raw_mode after it succeeds.
ToolOutcomes == {"ok", "spawn_err", "not_available"}
ToolEnv == [tool : ToolOutcomes, reenable : BOOLEAN]

\* What is true of the terminal while an external tool has it: the mode the
\* tool finds, where the keyboard reader thread stands, and what the
\* enable_raw_mode after the tool did.
ToolRun(tool, during, reader, reenabled, after) ==
    [tool |-> tool, during |-> during, reader |-> reader,
     reenabled |-> reenabled, after |-> after]

\* One received result, on the state [view, response, mode, saved, runs]:
\* set_view, set_model_response, and for an external tool: disable_raw_mode,
\* the launch (Json when the tool is not installed), enable_raw_mode.  The
\* keyboard reader thread is not told of the launch: it stays where it is.
analysis_result(a, r, e) ==
    LET shown == [a EXCEPT !.view = r.view, !.response = Some(r.summary)] IN
    IF r.view.kind = "ExternalTool"
    THEN LET restored == disable_raw_mode(a.saved, a.mode)
             after    == IF e.reenable THEN raw_mode(restored) ELSE restored
         IN
         [view     |-> IF e.tool = "not_available" THEN JsonView ELSE r.view,
          response |-> shown.response,
          mode     |-> after,
          saved    |-> IF e.reenable THEN Some(restored) ELSE None,
          runs     |-> Append(a.runs, ToolRun(r.view.tool, restored, dec_pc,
                                              e.reenable, after))]
    ELSE shown

\* while let Ok((view_kind, summary)) = analysis_rx.try_recv() { ... }
RECURSIVE drain_analysis(_, _, _)
drain_analysis(a, results, env) ==
    IF results = <<>> THEN a
    ELSE drain_analysis(analysis_result(a, Head(results), Head(env)),
                        Tail(results), Tail(env))

\* The match on key.code without the Ctrl+C arm.
session_key_ctrl_c_ignored(s, ev) ==
    IF ev.code = "Char" /\ ev.ch = "q" THEN [s EXCEPT !.quit = TRUE]
    ELSE IF ev.code = "Char" /\ ev.ch = "a"
         THEN IF ~has_api_key THEN [s EXCEPT !.response = Some(NoKeyMessage)]
              ELSE [s EXCEPT !.response = Some(CallingMessage),
                             !.spawned = s.spawned + 1]
    ELSE IF ev.code \in {"Up", "Down", "PageUp", "PageDown", "Home", "End", "Esc"}
         THEN [s EXCEPT !.app = handle_key(s.app, ev.code)]
    ELSE IF ev.code = "Char" /\ ev.ch = "f"
         THEN [s EXCEPT !.app = handle_key(s.app, ev.ch)]
    ELSE s

\* The match on key.code, on the state [app, quit, response, spawned]:
\* the engine state, should_quit, last_model_response and the number of
\* analysis tasks spawned.
session_key(s, ev) ==
    IF ev.code = "Char" /\ ev.ch = "q" THEN [s EXCEPT !.quit = TRUE]
    ELSE IF ev.code = "Char" /\ ev.ch = "a"
         THEN IF ~has_api_key THEN [s EXCEPT !.response = Some(NoKeyMessage)]
              ELSE [s EXCEPT !.response = Some(CallingMessage),
                             !.spawned = s.spawned + 1]
    ELSE IF ev.code = "Char" /\ ev.ch = "c" /\ ev.ctrl
         THEN [s EXCEPT !.quit = TRUE]
    ELSE IF ev.code \in {"Up", "Down", "PageUp", "PageDown", "Home", "End", "Esc"}
         THEN [s EXCEPT !.app = handle_key(s.app, ev.code)]
    ELSE IF ev.code = "Char" /\ ev.ch \in {"f", "c"}
         THEN [s EXCEPT !.app = handle_key(s.app, ev.ch)]
    ELSE s

\* The arms of the match on key.code under event::read() that change the
\* engine state, written out as they stand on that path.
terminal_handle_key(st, code, ch) ==
    CASE code = "Up" ->
           IF IsSome(st.selected_index)
           THEN LET selected == Unwrap(st.selected_index) IN
                IF selected > 0
                THEN LET sel           == select_line(st, selected - 1)
                         display_count == get_display_count(sel)
                         display_idx   == position(sel.filtered_indices, selected - 1)
                     IN IF IsSome(display_idx)
                        THEN [sel EXCEPT !.scroll_offset = Unwrap(display_idx)]
                        ELSE IF sel.filtered_indices = <<>>
                        THEN [sel EXCEPT !.scroll_offset =
                                 Min(selected - 1, saturating_sub(display_count, 1))]
                        ELSE sel
                ELSE st
           ELSE scroll_up(st, 1)
      [] code = "Down" ->
           IF IsSome(st.selected_index)
           THEN LET selected == Unwrap(st.selected_index) IN
                IF selected < saturating_sub(Len(st.log_buffer), 1)
                THEN LET sel           == select_line(st, selected + 1)
                         display_count == get_display_count(sel)
                         display_idx   == position(sel.filtered_indices, selected + 1)
                     IN IF IsSome(display_idx)
                        THEN [sel EXCEPT !.scroll_offset = Unwrap(display_idx)]
                        ELSE IF sel.filtered_indices = <<>>
                        THEN [sel EXCEPT !.scroll_offset =
                                 Min(selected + 1, saturating_sub(display_count, 1))]
                        ELSE sel
                ELSE st
           ELSE scroll_down(st, 1, get_display_count(st))
      [] code = "PageUp" -> scroll_up(st, 10)
      [] code = "PageDown" -> scroll_down(st, 10, get_display_count(st))
      [] code = "Home" -> [st EXCEPT !.scroll_offset = 0, !.selected_index = None]
      [] code = "End" ->
           IF get_display_count(st) > 0
           THEN [st EXCEPT !.scroll_offset = saturating_sub(get_display_count(st), 1)]
           ELSE st
      [] code = "Char" /\ ch = "f" ->
           IF IsSome(st.selected_index) THEN clear_selection(st)
           ELSE IF st.log_buffer # <<>>
                THEN select_line(st, Min(st.scroll_offset,
                                         saturating_sub(Len(st.log_buffer), 1)))
                ELSE st
      [] code = "Char" /\ ch = "c" -> clear_selection(st)
      [] code = "Esc" -> clear_selection(st)
      [] OTHER -> st

\* The match under event::read() with a Char('c') arm that does not look at
\* the modifiers and stands before the Ctrl+C arm.
terminal_key_plain_c(s, ev) ==
    IF ev.code = "Char" /\ ev.ch = "q" THEN [s EXCEPT !.quit = TRUE]
    ELSE IF ev.code = "Char" /\ ev.ch = "a"
         THEN IF ~has_api_key THEN [s EXCEPT !.response = Some(NoKeyMessage)]
              ELSE [s EXCEPT !.response = Some(CallingMessage),
                             !.spawned = s.spawned + 1]
    ELSE IF ev.code = "Char" /\ ev.ch = "c"
         THEN [s EXCEPT !.app = terminal_handle_key(s.app, ev.code, ev.ch)]
    ELSE IF ev.code \in {"Up", "Down", "PageUp", "PageDown", "Home", "End", "Esc"}
            \/ (ev.code = "Char" /\ ev.ch = "f")
         THEN [s EXCEPT !.app = terminal_handle_key(s.app, ev.code, ev.ch)]
    ELSE s

\* The match on key.code under event::read(), the key handler of the path
\* that polls the terminal, on the state [app, quit, response, spawned].
terminal_key(s, ev) ==
    IF ev.code = "Char" /\ ev.ch = "q" THEN [s EXCEPT !.quit = TRUE]
    ELSE IF ev.code = "Char" /\ ev.ch = "a"
         THEN IF ~has_api_key THEN [s EXCEPT !.response = Some(NoKeyMessage)]
              ELSE [s EXCEPT !.response = Some(CallingMessage),
                             !.spawned = s.spawned + 1]
    ELSE IF ev.code = "Char" /\ ev.ch = "c" /\ ev.ctrl
         THEN [s EXCEPT !.quit = TRUE]
    ELSE IF ev.code \in {"Up", "Down", "PageUp", "PageDown", "Home", "End", "Esc"}
            \/ (ev.code = "Char" /\ ev.ch \in {"f", "c"})
         THEN [s EXCEPT !.app = terminal_handle_key(s.app, ev.code, ev.ch)]
    ELSE s

\* while let Ok(event) = kb_rx.try_recv() { ... }
RECURSIVE handle_events(_, _)
handle_events(s, events) ==
    IF events = <<>> THEN s
    ELSE handle_events(session_key(s, Head(events)), Tail(events))

\* while let Ok(line) = log_receiver.try_recv() { add_log(line) }
RECURSIVE add_logs(_, _)
add_logs(st, lines) ==
    IF lines = <<>> THEN st
    ELSE add_logs(add_log(st, Head(lines)), Tail(lines))

\* The process ends: main's cleanup has run, the threads end with it.
ProcessExitFrom(saved, mode) ==
    /\ loop_pc' = "exited"
    /\ tty_mode' = disable_raw_mode(saved, mode)
    /\ crossterm_saved' = None
    /\ dec_pc' = IF dec_pc \in {"spawned", "reading"} THEN "killed" ELSE dec_pc
    /\ reader_pc' = IF reader_pc \in {"message", "reading"} THEN "stopped"
                    ELSE reader_pc

ProcessExit == ProcessExitFrom(crossterm_saved, tty_mode)

\* run_tui up to the main loop.  enable_raw_mode may fail, and so may the
\* terminal setup after it, which returns the error to main.
Startup ==
    /\ loop_pc = "start"
    /\ \E raw_ok \in BOOLEAN, io_ok \in BOOLEAN :
         /\ raw_mode_enabled' = raw_ok
         /\ IF io_ok
            THEN /\ loop_pc' = "running"
                 /\ crossterm_saved' = IF raw_ok THEN Some(tty_mode) ELSE None
                 /\ tty_mode' = IF raw_ok THEN raw_mode(tty_mode) ELSE tty_mode
                 /\ keyboard_rx' = choose_keyboard_rx(stdin_is_tty)
                 /\ dec_pc' = IF choose_keyboard_rx(stdin_is_tty) THEN "spawned"
                              ELSE dec_pc
                 /\ reader_pc' = IF stdin_is_tty THEN "message" ELSE "reading"
            ELSE /\ loop_pc' = "exited"
                 /\ crossterm_saved' = None
                 /\ reader_pc' = "stopped"
                 /\ UNCHANGED <<tty_mode, keyboard_rx, dec_pc>>
    /\ last_op' = Op("startup", 0)
    /\ UNCHANGED <<analysisVars, extractVars>>
    /\ UNCHANGED <<engine, appended, tty_in, tty_closed, original_termios,
                   kb_channel, typed, dec_read, dec_sent, stdin_is_tty,
                   should_quit, should_quit_signal, log_channel, stdin_in,
                   term_events, lines_read, sources_used>>

\* The ctrlc handler.
Interrupt ==
    /\ loop_pc = "running"
    /\ ~should_quit_signal
    /\ should_quit_signal' = TRUE
    /\ last_op' = Op("interrupt", 0)
    /\ UNCHANGED <<analysisVars, extractVars>>
    /\ UNCHANGED <<engine, appended, decoderVars, stdin_is_tty, raw_mode_enabled,
                   crossterm_saved, keyboard_rx, should_quit, loop_pc,
                   log_channel, stdin_in, reader_pc, term_events, lines_read,
                   sources_used>>

\* ReaderStep whose read error ends the session loop as well
ReaderStep_error_fatal ==
    /\ loop_pc = "running"
    /\ reader_pc \in {"message", "reading"}
    /\ IF reader_pc = "message"
       THEN LET snd == channel_send(log_channel, WaitingMessage) IN
            /\ snd.ready
            /\ log_channel' = snd.channel
            /\ lines_read' = Append(lines_read, WaitingMessage)
            /\ reader_pc' = "done"
            /\ UNCHANGED <<stdin_in, loop_pc>>
       ELSE IF stdin_in = <<>> \/ ~Head(stdin_in).ok
       THEN /\ reader_pc' = "done"
            /\ stdin_in' = IF stdin_in = <<>> THEN stdin_in ELSE Tail(stdin_in)
            /\ loop_pc' = IF stdin_in = <<>> THEN loop_pc ELSE "exited"
            /\ UNCHANGED <<log_channel, lines_read>>
       ELSE LET line == trimmed(Head(stdin_in).text)
                snd == channel_send(log_channel, line) IN
            /\ snd.ready
            /\ stdin_in' = Tail(stdin_in)
            /\ log_channel' = snd.channel
            /\ lines_read' = Append(lines_read, line)
            /\ UNCHANGED <<reader_pc, loop_pc>>
    /\ last_op' = Op("reader", 0)
    /\ UNCHANGED <<analysisVars, extractVars>>
    /\ UNCHANGED <<engine, appended, decoderVars, stdin_is_tty, raw_mode_enabled,
                   crossterm_saved, keyboard_rx, should_quit, should_quit_signal,
                   term_events, sources_used>>

\* One turn of the stdin reader task (or the task that sends the waiting
\* message when stdin is a terminal).
ReaderStep ==
    /\ loop_pc = "running"
    /\ reader_pc \in {"message", "reading"}
    /\ IF reader_pc = "message"
       THEN LET snd == channel_send(log_channel, WaitingMessage) IN
            /\ snd.ready
            /\ log_channel' = snd.channel
            /\ lines_read' = Append(lines_read, WaitingMessage)
            /\ reader_pc' = "done"
            /\ UNCHANGED stdin_in
       ELSE IF stdin_in = <<>> \/ ~Head(stdin_in).ok
       THEN /\ reader_pc' = "done"
            /\ stdin_in' = IF stdin_in = <<>> THEN stdin_in ELSE Tail(stdin_in)
            /\ UNCHANGED <<log_channel, lines_read>>
       ELSE LET line == trimmed(Head(stdin_in).text)
                snd == channel_send(log_channel, line) IN
            /\ snd.ready
            /\ stdin_in' = Tail(stdin_in)
            /\ log_channel' = snd.channel
            /\ lines_read' = Append(lines_read, line)
            /\ UNCHANGED reader_pc
    /\ last_op' = Op("reader", 0)
    /\ UNCHANGED <<analysisVars, extractVars>>
    /\ UNCHANGED <<engine, appended, decoderVars, stdin_is_tty, raw_mode_enabled,
                   crossterm_saved, keyboard_rx, should_quit, should_quit_signal,
                   loop_pc, term_events, sources_used>>

\* One iteration of the main loop: drain the log channel, drain the analysis
\* channel (launching external tools), draw, handle the key events of the
\* chosen source.  A failed draw returns the error to main.
LoopIteration ==
    /\ loop_pc = "running"
    /\ ~should_quit /\ ~should_quit_signal
    /\ \E draw_ok \in BOOLEAN, env \in [1..Len(analysis_rx) -> ToolEnv] :
         LET drained == add_logs(State, log_channel)
             a       == drain_analysis([view     |-> active_view,
                                        response |-> last_model_response,
                                        mode     |-> tty_mode,
                                        saved    |-> crossterm_saved,
                                        runs     |-> <<>>],
                                       analysis_rx, env)
             before  == [app      |-> drained,
                         quit     |-> FALSE,
                         response |-> a.response,
                         spawned  |-> 0]
             after   == IF keyboard_rx THEN handle_events(before, kb_channel)
                        ELSE IF raw_mode_enabled /\ term_events # <<>>
                        THEN terminal_key(before, terminal_event(Head(term_events)))
                        ELSE before
         IN
         /\ log_channel' = <<>>
         /\ appended' = appended \o log_channel
         /\ analysis_rx' = <<>>
         /\ active_view' = a.view
         /\ tool_runs' = a.runs
         /\ IF draw_ok
            THEN /\ Set(after.app)
                 /\ drawn' = Some([view |-> a.view, response |-> a.response])
                 /\ last_model_response' = after.response
                 /\ analysis_tasks' = analysis_tasks + after.spawned
                 /\ should_quit' = after.quit
                 /\ kb_channel' = IF keyboard_rx THEN <<>> ELSE kb_channel
                 /\ term_events' = IF ~keyboard_rx /\ raw_mode_enabled
                                      /\ term_events # <<>>
                                   THEN Tail(term_events) ELSE term_events
                 /\ sources_used' =
                        sources_used \cup
                        (IF keyboard_rx THEN {"decoder"}
                         ELSE IF raw_mode_enabled THEN {"terminal"} ELSE {})
                 /\ tty_mode' = a.mode
                 /\ crossterm_saved' = a.saved
                 /\ UNCHANGED <<loop_pc, dec_pc, reader_pc>>
            ELSE /\ Set(drained)
                 /\ last_model_response' = a.response
                 /\ ProcessExitFrom(a.saved, a.mode)
                 /\ UNCHANGED <<should_quit, kb_channel, term_events,
                                sources_used, analysis_tasks, drawn>>
    /\ last_op' = Op("iteration", 0)
    /\ UNCHANGED <<tty_in, tty_closed, original_termios, typed, dec_read,
                   dec_sent, stdin_is_tty, raw_mode_enabled, keyboard_rx,
                   should_quit_signal, stdin_in, lines_read, has_api_key,
                   extractVars>>

\* An analysis task finishes: analyze_logs returns and the task sends the
\* result (it waits while the analysis channel is full).
AnalysisFinish ==
    /\ loop_pc = "running"
    /\ analysis_tasks > 0
    /\ Len(analysis_rx) < AnalysisCap
    /\ \E outcome \in AnalyzeOutcomes :
         /\ analysis_rx' = Append(analysis_rx, task_send(outcome))
         /\ last_op' = Op(IF outcome.ok THEN "analysis_ok" ELSE "analysis_failed", 0)
    /\ analysis_tasks' = analysis_tasks - 1
    /\ UNCHANGED <<engine, appended, decoderVars, sessionVars, active_view,
                   last_model_response, has_api_key, drawn, tool_runs,
                   extractVars>>

\* The loop check fails: run_tui restores the terminal and returns, main
\* cleans up.
LoopExit ==
    /\ loop_pc = "running"
    /\ should_quit \/ should_quit_signal
    /\ ProcessExit
    /\ last_op' = Op("exit", 0)
    /\ UNCHANGED <<analysisVars, extractVars>>
    /\ UNCHANGED <<engine, appended, tty_in, tty_closed, original_termios,
                   kb_channel, typed, dec_read, dec_sent, stdin_is_tty,
                   raw_mode_enabled, keyboard_rx, should_quit,
                   should_quit_signal, log_channel, stdin_in, term_events,
                   lines_read, sources_used>>

\* Keys the session is driven with.
SessionKeys == {"q", "f", "Ctrl+c"}

SessionInit(KeySet, StdinSet, ApiKeySet) ==
    /\ EngineNew
    /\ stdin_is_tty \in BOOLEAN
    /\ \E keys \in SeqsUpTo(KeySet, MaxKeys) :
         /\ typed = keys
         /\ tty_in = IF stdin_is_tty THEN <<>>
                     ELSE Flatten([k \in 1..Len(keys) |-> Encode(keys[k])])
         /\ term_events = IF stdin_is_tty THEN keys ELSE <<>>
    /\ stdin_in \in (IF stdin_is_tty THEN {<<>>} ELSE StdinSet)
    /\ tty_closed = FALSE
    /\ tty_mode = TermiosFlags
    /\ original_termios = None
    /\ kb_channel = <<>>
    /\ dec_pc = "none"
    /\ dec_read = <<>>
    /\ dec_sent = <<>>
    /\ raw_mode_enabled = FALSE
    /\ crossterm_saved = None
    /\ keyboard_rx = FALSE
    /\ should_quit = FALSE
    /\ should_quit_signal = FALSE
    /\ loop_pc = "start"
    /\ log_channel = <<>>
    /\ reader_pc = "none"
    /\ lines_read = <<>>
    /\ sources_used = {}
    /\ NoAnalysis
    /\ NoExtract
    /\ has_api_key \in ApiKeySet

InitSession == SessionInit(SessionKeys, SeqsUpTo(StdinItems, MaxStdin), {FALSE})

NextSession ==
    \/ Startup
    \/ Interrupt
    \/ ReaderStep
    \/ LoopIteration
    \/ LoopExit
    \/ DecoderStart
    \/ DecoderRead
    \/ TtyClose

SpecSession == InitSession /\ [][NextSession]_vars

\* Sessions with nothing on stdin, where the thread of the main loop is
\* scheduled: once the loop check fails the way out is taken.
InitQuit == InitSession /\ stdin_in = <<>>

SpecQuit == InitQuit /\ [][NextSession]_vars /\ WF_vars(LoopExit)

\* Sessions in which the operator asks for an analysis.
AnalysisKeys == {"a", "q"}

InitAnalysis ==
    SessionInit(AnalysisKeys, {<<ReadOk(LineA1 \o <<"\n">>)>>}, BOOLEAN)

NextAnalysis ==
    \/ Startup
    \/ Interrupt
    \/ ReaderStep
    \/ LoopIteration
    \/ LoopExit
    \/ AnalysisFinish
    \/ DecoderStart
    \/ DecoderRead
    \/ TtyClose

SpecAnalysis == InitAnalysis /\ [][NextAnalysis]_vars

----------------------------------------------------------------------------
(* extract_filter_text called on its own, on any line *)

\* Longest line built from the alphabet.
MaxLineLen == 4

\* a letter, a digit, '=', '"', a blank, '_', '.', and a two-byte letter
ExtractAlphabet == {"a", "1", Equals, Quote, " ", "_", ".", "e_acute"}

Repeat(c, n) == [k \in 1..n |-> c]

\* level=info msg="connection refused"
LineLevelInfo ==
    <<"l", "e", "v", "e", "l", "=", "i", "n", "f", "o", " ", "m", "s", "g",
      "=", Quote, "c", "o", "n", "n", "e", "c", "t", "i", "o", "n", " ", "r",
      "e", "f", "u", "s", "e", "d", Quote>>

\* plain text here
LinePlainText ==
    <<"p", "l", "a", "i", "n", " ", "t", "e", "x", "t", " ", "h", "e", "r",
      "e">>

\* k=v "<n times c>"
LineQuotedRun(c, n) == <<"k", Equals, "v", " ", Quote>> \o Repeat(c, n) \o <<Quote>>

\* k=<n times c>
LineValueRun(c, n) == <<"k", Equals>> \o Repeat(c, n)

\* Lines with tokens at the length limit: 99 and 100 one-byte letters, and 50
\* two-byte letters (100 bytes).
LimitLines ==
    {LineQuotedRun("a", TokenLimit - 1), LineQuotedRun("a", TokenLimit),
     LineQuotedRun("e_acute", TokenLimit \div 2),
     LineValueRun("a", TokenLimit - 1), LineValueRun("a", TokenLimit),
     LineValueRun("e_acute", TokenLimit \div 2)}

ExtractLines ==
    SeqsUpTo(ExtractAlphabet, MaxLineLen)
        \cup {LineLevelInfo, LinePlainText} \cup LimitLines

InitExtract ==
    /\ EngineNew
    /\ NoDecoder
    /\ NoSession
    /\ ex_line \in ExtractLines
    /\ ex_token = None
    /\ ex_pc = "called"

Extract ==
    /\ ex_pc = "called"
    /\ ex_token' = extract_filter_text(ex_line)
    /\ ex_pc' = "returned"
    /\ last_op' = Op("extract_filter_text", 0)
    /\ UNCHANGED <<engine, appended, decoderVars, sessionVars, analysisVars,
                   ex_line>>

NextExtract == Extract

SpecExtract == InitExtract /\ [][NextExtract]_vars

----------------------------------------------------------------------------
(* Properties *)

IsAscending(v) == \A k \in 1..(Len(v) - 1) : v[k] < v[k + 1]
Elems(v) == {v[k] : k \in 1..Len(v)}

\* the buffer indices whose line contains the token t
MatchSet(buf, t) == {j \in 0..(Len(buf) - 1) : contains(At(buf, j), t)}

IsEviction(op) == op = Op("add_log", Capacity)

\* C1: in every reachable state filtered_indices is exactly the ascending list
\* of the buffer indices whose line contains the filter token, and it is empty
\* when no filter token is set.
C1_FilterExact ==
    /\ IsSome(filter_text) =>
          /\ IsAscending(filtered_indices)
          /\ Elems(filtered_indices) = MatchSet(log_buffer, Unwrap(filter_text))
    /\ IsNone(filter_text) => filtered_indices = <<>>

\* C2: the buffer never holds more than Capacity lines, whatever operations
\* are interleaved with the appends.
C2_CapacityInvariant == Len(log_buffer) <= Capacity

\* an append was made to a full buffer
C2_Witness == IsEviction(last_op) /\ Len(log_buffer) = Capacity

\* C3: after n appends the buffer is the last min(n, Capacity) appended lines
\* in arrival order.
C3_LastLinesKept ==
    LET n == Min(Len(appended), Capacity)
    IN log_buffer = SubSeq(appended, Len(appended) - n + 1, Len(appended))

\* more lines were appended than fit, and the first one differs from the rest
C3_Witness ==
    /\ Len(appended) = Capacity + 1
    /\ \A k \in 2..Len(appended) : appended[k] # appended[1]

\* C4: a set selection is an index of the buffer.
C4_SelectionInRange ==
    IsSome(selected_index) => Unwrap(selected_index) < Len(log_buffer)

\* an eviction renumbered a selection that is still set
C4_Witness == IsEviction(last_op) /\ IsSome(selected_index)

\* C5: the scroll offset is below display_count() when that is positive, and 0
\* otherwise.
C5_ScrollInRange ==
    LET display_count == get_display_count(State)
    IN IF display_count > 0 THEN scroll_offset < display_count
       ELSE scroll_offset = 0

\* an eviction under an active filter left the offset on the last shown line
C5_Witness ==
    /\ IsEviction(last_op)
    /\ Len(filtered_indices) > 1
    /\ scroll_offset = Len(filtered_indices) - 1

\* C6: an append that evicts index 0 removes index 0 from filtered_indices and
\* decrements every other index, clears a selection of 0 and decrements any
\* other, and decrements a positive scroll offset.
C6_Renumbering ==
    [][IsEviction(last_op') =>
          /\ LET kept == SelectSeq(filtered_indices, LAMBDA i : i > 0)
             IN /\ Len(filtered_indices') = Len(kept)
                /\ \A k \in 1..Len(kept) : filtered_indices'[k] = kept[k] - 1
          /\ IF IsSome(selected_index) /\ Unwrap(selected_index) > 0
             THEN selected_index' = Some(Unwrap(selected_index) - 1)
             ELSE selected_index' = None
          /\ IF scroll_offset > 0 THEN scroll_offset' = scroll_offset - 1
             ELSE scroll_offset' = 0]_vars

\* an eviction moved a selection, a filter and a positive offset down by one
C6_Witness ==
    /\ IsEviction(last_op)
    /\ selected_index = Some(1)
    /\ filtered_indices = <<0, 1>>
    /\ scroll_offset = 1

\* C7: after select_line(i) with i in range and a non-empty token t derived
\* from line i, filtered_indices is the ascending list of all indices whose
\* line contains t.
C7_FilterComplete ==
    (last_op.op = "select_line" /\ last_op.arg < Len(log_buffer)) =>
        LET t == extract_filter_text(At(log_buffer, last_op.arg))
        IN (IsSome(t) /\ Unwrap(t) # <<>>) =>
              /\ IsAscending(filtered_indices)
              /\ Elems(filtered_indices) = MatchSet(log_buffer, Unwrap(t))

\* the scenario ["a=1", "b=2", "a=1 extra"], select(0): token "1", indices [0, 2]
C7_Witness ==
    /\ last_op = Op("select_line", 0)
    /\ log_buffer = <<LineA1, LineB2, LineA1Extra>>
    /\ filter_text = Some(<<"1">>)
    /\ filtered_indices = <<0, 2>>

\* C8: select_line(index) with index >= len() changes nothing of the engine.
C8_SelectOutOfRangeNoOp ==
    [][(last_op'.op = "select_line" /\ last_op'.arg >= Len(log_buffer)) =>
          UNCHANGED engine]_vars

\* select_line was called out of range on a state with a selection and a filter
C8_Witness ==
    /\ last_op.op = "select_line"
    /\ last_op.arg >= Len(log_buffer)
    /\ IsSome(selected_index)
    /\ filtered_indices # <<>>

\* C9: clear_selection() unsets the selection and the filter token, empties
\* filtered_indices, and leaves the scroll offset and the buffer as they were.
C9_ClearSelection ==
    [][last_op'.op = "clear_selection" =>
          /\ selected_index' = None
          /\ filter_text' = None
          /\ filtered_indices' = <<>>
          /\ UNCHANGED <<scroll_offset, log_buffer>>]_vars

\* clear_selection was called and the offset is still off the top
C9_Witness ==
    /\ last_op.op = "clear_selection"
    /\ scroll_offset > 0

\* C10: display_count() is the length of filtered_indices whenever a filter
\* token is set, and the length of the buffer otherwise.
C10_DisplayCount ==
    get_display_count(State) =
        IF IsSome(filter_text) THEN Len(filtered_indices) ELSE Len(log_buffer)

\* C11: get_display_logs() returns, in ascending index order, the pairs
\* (i, buffer[i]) for exactly the indices of filtered_indices when a filter
\* token is set, and for every buffer index otherwise; every index is valid and
\* the number of pairs is display_count().
C11_DisplayWindow ==
    LET window == get_display_logs(State)
        shown  == IF IsSome(filter_text) THEN filtered_indices
                  ELSE [k \in 1..Len(log_buffer) |-> k - 1]
    IN /\ Len(window) = Len(shown)
       /\ \A k \in 1..Len(shown) :
             /\ shown[k] < Len(log_buffer)
             /\ window[k] = <<shown[k], At(log_buffer, shown[k])>>
       /\ IsAscending(shown)
       /\ Len(window) = get_display_count(State)

Max(a, b) == IF a > b THEN a ELSE b

----------------------------------------------------------------------------
(* Properties of the keyboard reader *)

\* every chunk typed is the encoding of a key press of the logical key set
AllPresses == \A k \in 1..Len(typed) : \E key \in LogicalKeys : typed[k] = Encode(key)

PressOf(chunk) == CHOOSE key \in LogicalKeys : Encode(key) = chunk

\* the reader changed the mode and has read every byte typed
ReadEverything == IsSome(original_termios) /\ tty_in = <<>>

\* C13: fed the byte encoding of a sequence of key presses, the reader sends
\* the events the terminal-event source reports for them: one per press, in
\* order.
C13_SameEventStream ==
    (AllPresses /\ ReadEverything) =>
        kb_channel = [k \in 1..Len(typed) |-> terminal_event(PressOf(typed[k]))]

\* C14: ESC [ A gives one arrow-up, ESC [ B one arrow-down, ESC [ 5 ~ one
\* page-up, ESC [ 6 ~ one page-down, and ESC [ 9 no event: for the bytes one
\* iteration reads and for a stream that is that sequence alone.
C14_EscapeSequences ==
    /\ dec_read = <<27, 91, 65>> => dec_sent = <<KeyUp>>
    /\ dec_read = <<27, 91, 66>> => dec_sent = <<KeyDown>>
    /\ dec_read = <<27, 91, 53, 126>> => dec_sent = <<KeyPageUp>>
    /\ dec_read = <<27, 91, 54, 126>> => dec_sent = <<KeyPageDown>>
    /\ dec_read = <<27, 91, 57>> => dec_sent = <<>>
    /\ ReadEverything =>
          /\ typed = <<<<27, 91, 65>>>> => kb_channel = <<KeyUp>>
          /\ typed = <<<<27, 91, 66>>>> => kb_channel = <<KeyDown>>
          /\ typed = <<<<27, 91, 53, 126>>>> => kb_channel = <<KeyPageUp>>
          /\ typed = <<<<27, 91, 54, 126>>>> => kb_channel = <<KeyPageDown>>
          /\ typed = <<<<27, 91, 57>>>> => kb_channel = <<>>

\* an arrow-up then ESC [ 9 were read: one event
C14_Witness ==
    /\ typed = <<<<27, 91, 65>>, <<27, 91, 57>>>>
    /\ ReadEverything
    /\ dec_read = <<27, 91, 57>>
    /\ kb_channel = <<KeyUp>>

\* C15: an iteration that reads 0x1B and then a byte other than '[' sends an
\* escape key event.
C15_EscThenOtherByte ==
    (Len(dec_read) = 2 /\ dec_read[1] = 27 /\ dec_read[2] # 91) =>
        \E k \in 1..Len(dec_sent) : dec_sent[k] = KeyEsc

\* C16: an iteration that reads 0x1B and finds the stream ended sends a bare
\* escape key event.
C16_EscThenEnd ==
    (dec_read = <<27>> /\ tty_closed) => dec_sent = <<KeyEsc>>

\* the event a literal byte stands for
LiteralEvents(byte) ==
    IF byte \in {113, 81} THEN <<KeyChar("q")>>
    ELSE IF byte \in {97, 65} THEN <<KeyChar("a")>>
    ELSE IF byte \in {102, 70} THEN <<KeyChar("f")>>
    ELSE IF byte \in {99, 67} THEN <<KeyChar("c")>>
    ELSE IF byte = 3 THEN <<KeyCtrlC>>
    ELSE <<>>

\* C17: a byte read as a literal key sends one lower-case character event for
\* q, a, f, c in either case, one Ctrl+c event for 0x03, and nothing for any
\* other byte.
C17_LiteralBytes ==
    (Len(dec_read) = 1 /\ dec_read[1] # 27) => dec_sent = LiteralEvents(dec_read[1])

\* an upper-case C was read as a literal key
C17_Witness ==
    /\ dec_read = <<67>>
    /\ dec_sent = <<KeyChar("c")>>

----------------------------------------------------------------------------
(* Properties of the session *)

\* The reader set a mode different from the one it found.
DecoderChangedMode ==
    /\ IsSome(original_termios)
    /\ reader_mode(Unwrap(original_termios)) # Unwrap(original_termios)

\* C18: once the reader has changed the mode of the terminal device, the mode
\* it found is set again on every way out: when its read loop has ended, and
\* when the session has ended from outside (quit key, interrupt flag, failed
\* draw) while the reader was still blocked in a read.
C18_ModeRestored ==
    (DecoderChangedMode /\ (dec_pc = "exited" \/ loop_pc = "exited"))
        => tty_mode = Unwrap(original_termios)

\* The source the stdin-is-a-terminal fact alone picks.
ChosenSource == IF stdin_is_tty THEN "terminal" ELSE "decoder"

\* C19: the key-event source is chosen at startup from stdin_is_tty alone
\* (the reader's channel when stdin is not a terminal, terminal polling
\* otherwise); no loop iteration takes key events from the other source, and
\* the choice does not change while the session runs.
C19_OneSource ==
    [][/\ stdin_is_tty' = stdin_is_tty
       /\ loop_pc' = "running" => keyboard_rx' = ~stdin_is_tty
       /\ loop_pc = "running" => keyboard_rx' = keyboard_rx
       /\ sources_used' \subseteq {ChosenSource}]_vars

\* A key press that came through the reader's channel has been handled.
C19_Witness ==
    /\ ~stdin_is_tty
    /\ sources_used = {"decoder"}
    /\ should_quit

\* the last n elements of v
LastN(v, n) == SubSeq(v, Len(v) - Min(n, Len(v)) + 1, Len(v))

C21_InvalidLineForwarded ==
    [][(/\ last_op'.op = "reader"
        /\ reader_pc = "reading"
        /\ stdin_in # <<>>
        /\ ~Head(stdin_in).ok)
       => /\ reader_pc' = "reading"
          /\ Len(lines_read') = Len(lines_read) + 1
          /\ Len(log_channel') = Len(log_channel) + 1]_vars

\* The chosen source holds a quit key event ('q' or Ctrl+C) that the next
\* iteration handles.
QuitKeyPending ==
    IF keyboard_rx
    THEN \E k \in 1..Len(kb_channel) : kb_channel[k] \in {KeyChar("q"), KeyCtrlC}
    ELSE /\ raw_mode_enabled
         /\ term_events # <<>>
         /\ Head(term_events) \in {"q", "Ctrl+c"}

LoopStopped == loop_pc = "running" /\ (should_quit \/ should_quit_signal)

\* C22: an iteration that handles a quit key event, 'q' or Ctrl+C alike, sets
\* should_quit; once should_quit or the interrupt flag is set the loop starts
\* no further iteration and neither flag is cleared; and, the loop's thread
\* being scheduled, the loop is eventually left.
C22_QuitExits ==
    /\ [][/\ (last_op'.op = "iteration" /\ loop_pc' = "running" /\ QuitKeyPending)
             => should_quit'
          /\ LoopStopped =>
                /\ last_op'.op # "iteration"
                /\ should_quit => should_quit'
                /\ should_quit_signal => should_quit_signal'
                /\ UNCHANGED engine]_vars
    /\ (LoopStopped ~> loop_pc = "exited")

\* Ctrl+C came through the reader's channel and the loop was left on it.
C22_Witness ==
    /\ typed = <<"Ctrl+c">>
    /\ keyboard_rx
    /\ should_quit /\ ~should_quit_signal
    /\ loop_pc = "exited"

----------------------------------------------------------------------------
(* Properties of the classifier side *)

\* the key events the next iteration handles
PendingEvents ==
    IF keyboard_rx THEN kb_channel
    ELSE IF raw_mode_enabled /\ term_events # <<>>
    THEN <<terminal_event(Head(term_events))>>
    ELSE <<>>

\* the analysis requests among them
AnalysisRequests ==
    Cardinality({k \in 1..Len(PendingEvents) : PendingEvents[k] = KeyChar("a")})

IsErrorMessage(summary) == \E e \in Errors : summary = ErrorMessage(e)

LastResult == analysis_rx[Len(analysis_rx)]

\* C23: a failed analysis is sent to the loop as (Plain, error message): the
\* task ends, the loop goes on and no task is started in its place.  The
\* iteration that receives it as the latest result makes Plain the active
\* view and draws the error message; it sets no quit flag and starts no
\* analysis task other than those the operator asks for with the 'a' key.
C23_ClassifierFailure ==
    [][/\ last_op'.op = "analysis_failed" =>
            /\ \E e \in Errors :
                 analysis_rx' =
                     Append(analysis_rx, Result(PlainView, ErrorMessage(e)))
            /\ analysis_tasks' = analysis_tasks - 1
            /\ loop_pc' = "running"
            /\ UNCHANGED <<should_quit, should_quit_signal>>
       /\ (/\ last_op'.op = "iteration"
           /\ analysis_rx # <<>>
           /\ IsErrorMessage(LastResult.summary)) =>
            /\ active_view' = PlainView
            /\ analysis_rx' = <<>>
            /\ should_quit' => QuitKeyPending
            /\ loop_pc' = "running" =>
                 /\ drawn' = Some([view     |-> PlainView,
                                   response |-> Some(LastResult.summary)])
                 /\ analysis_tasks' =
                        analysis_tasks + (IF has_api_key THEN AnalysisRequests ELSE 0)
      ]_vars

\* The error message of a failed analysis has been drawn with the Plain view
\* and the loop is still running.
C23_Witness ==
    /\ loop_pc = "running"
    /\ IsSome(drawn)
    /\ Unwrap(drawn).view = PlainView
    /\ IsSome(Unwrap(drawn).response)
    /\ IsErrorMessage(Unwrap(Unwrap(drawn).response))
    /\ analysis_tasks = 0

----------------------------------------------------------------------------
(* Properties of the extractor *)

\* positions (1-based) of the character ch in the line
Positions(line, ch) == {k \in 1..Len(line) : line[k] = ch}

SetMin(S) == CHOOSE x \in S : \A y \in S : x <= y

\* the content between the first two double quotes of a line that has two
FirstQuoted(line) ==
    LET q1 == SetMin(Positions(line, Quote))
        q2 == SetMin(Positions(line, Quote) \ {q1})
    IN SubSeq(line, q1 + 1, q2 - 1)

HasQuoted(line) == Cardinality(Positions(line, Quote)) >= 2

\* C24: for a line with a double-quoted substring that is non-empty
\* and under 100 characters, and with a '=' in it, extract_filter_text returns
\* the content between the first two double quotes, not the key=value token.
C24_QuotedFirst ==
    (/\ ex_pc = "returned"
     /\ HasQuoted(ex_line)
     /\ FirstQuoted(ex_line) # <<>>
     /\ Len(FirstQuoted(ex_line)) < TokenLimit
     /\ Positions(ex_line, Equals) # {})
        => ex_token = Some(FirstQuoted(ex_line))

\* The same with the quoted content under 100 bytes of UTF-8, the measure of
\* value.len() < 100: this holds.
QuotedFirstBytes ==
    (/\ ex_pc = "returned"
     /\ HasQuoted(ex_line)
     /\ FirstQuoted(ex_line) # <<>>
     /\ StrLen(FirstQuoted(ex_line)) < TokenLimit
     /\ Positions(ex_line, Equals) # {})
        => ex_token = Some(FirstQuoted(ex_line))

\* `level=info msg="connection refused"` has yielded `connection refused`.
QuotedFirstReached ==
    /\ ex_pc = "returned"
    /\ ex_line = LineLevelInfo
    /\ ex_token = Some(SubSeq(LineLevelInfo, 17, 34))

\* the whitespace-delimited token that follows the first '=' of a line that
\* has one (empty when nothing but whitespace follows)
TokenAfterEquals(line) ==
    LET eq   == SetMin(Positions(line, Equals))
        toks == split_whitespace(SubSeq(line, eq + 1, Len(line)))
    IN IF toks = <<>> THEN <<>> ELSE Head(toks)

\* C25: when the quoted-string strategy does not succeed and the
\* line contains '=', extract_filter_text returns the token following the
\* first '=' whenever that token is non-empty and under 100 characters,
\* wherever the '=' stands in the line.
C25_KeyValueAnywhere ==
    (/\ ex_pc = "returned"
     /\ IsNone(QuotedValue(ex_line))
     /\ Positions(ex_line, Equals) # {}
     /\ TokenAfterEquals(ex_line) # <<>>
     /\ Len(TokenAfterEquals(ex_line)) < TokenLimit)
        => ex_token = Some(TokenAfterEquals(ex_line))

\* The same when the first '=' is not the first character of the line and
\* the token is under 100 bytes of UTF-8: this holds.
KeyValueAfterKey ==
    (/\ ex_pc = "returned"
     /\ IsNone(QuotedValue(ex_line))
     /\ Positions(ex_line, Equals) # {}
     /\ SetMin(Positions(ex_line, Equals)) > 1
     /\ TokenAfterEquals(ex_line) # <<>>
     /\ StrLen(TokenAfterEquals(ex_line)) < TokenLimit)
        => ex_token = Some(TokenAfterEquals(ex_line))

\* `a= 1` has yielded `1`: the token after the first '=', past the blank.
KeyValueReached ==
    /\ ex_pc = "returned"
    /\ ex_line = <<"a", Equals, " ", "1">>
    /\ ex_token = Some(<<"1">>)

IsWordChar(c) == is_alphanumeric(c) \/ c = "_" \/ c = "-"

\* the longest prefix of w made of word characters only
LeadingRun(w) ==
    LET ns == {n \in 0..Len(w) : \A j \in 1..n : IsWordChar(w[j])}
    IN SubSeq(w, 1, CHOOSE n \in ns : \A m \in ns : m <= n)

\* The token of the first-word strategy as the claim words it, lengths being
\* counted in bytes of UTF-8 or in characters: the first word of size >= 2
\* with an alphanumeric character, cut to its leading run, if that has
\* size >= 2.
FirstWordToken(line, in_bytes) ==
    LET size(w) == IF in_bytes THEN StrLen(w) ELSE Len(w)
        words == split_whitespace(line)
        ks    == {k \in 1..Len(words) :
                     /\ size(words[k]) >= 2
                     /\ \E j \in 1..Len(words[k]) : is_alphanumeric(words[k][j])}
    IN IF ks = {} THEN None
       ELSE LET run == LeadingRun(words[SetMin(ks)])
            IN IF size(run) >= 2 THEN Some(run) ELSE None

\* C26: for a line with no accepted quoted substring and no accepted
\* key=value token, extract_filter_text returns the leading run of word
\* characters of the first word that has at least 2 characters, one of them
\* alphanumeric, if that run has at least 2 characters, and no token
\* otherwise (`plain text here` yields `plain`).
C26_FirstWord ==
    (/\ ex_pc = "returned"
     /\ IsNone(QuotedValue(ex_line))
     /\ IsNone(KeyValue(ex_line)))
        => ex_token = FirstWordToken(ex_line, FALSE)

\* The same with lengths in bytes of UTF-8, the measure of w.len() >= 2 and
\* cleaned.len() >= 2: this holds.
FirstWordBytes ==
    (/\ ex_pc = "returned"
     /\ IsNone(QuotedValue(ex_line))
     /\ IsNone(KeyValue(ex_line)))
        => ex_token = FirstWordToken(ex_line, TRUE)

----------------------------------------------------------------------------
(* Further properties of the engine *)

\* C27: after select_line(index) with index < len(), the selection is
\* Some(index), the scroll offset is 0, and the filter token is the one
\* extract_filter_text derives from the line at index; when it derives none,
\* there is no filter token and filtered_indices is empty.
C27_SelectResult ==
    (last_op.op = "select_line" /\ last_op.arg < Len(log_buffer)) =>
        LET t == extract_filter_text(At(log_buffer, last_op.arg)) IN
        /\ selected_index = Some(last_op.arg)
        /\ scroll_offset = 0
        /\ filter_text = t
        /\ IsNone(t) => filtered_indices = <<>>

\* C28: an arrow-up or arrow-down key handled with a selection s and a
\* neighbour s-1 / s+1 inside the buffer selects the neighbour, re-derives the
\* filter from the neighbour's line and sets the scroll offset to the position
\* of the neighbour in get_display_logs(); at s = 0 (up) or s = len()-1 (down)
\* the key changes nothing.
C28_ArrowMovesSelection ==
    [][(last_op'.op \in {"Up", "Down"} /\ IsSome(selected_index)) =>
          LET s         == Unwrap(selected_index)
              up        == last_op'.op = "Up"
              neighbour == IF up THEN s - 1 ELSE s + 1
              shown     == get_display_logs(State')
          IN IF (up /\ s = 0) \/ (~up /\ s = Len(log_buffer) - 1)
             THEN UNCHANGED engine
             ELSE neighbour \in 0..(Len(log_buffer) - 1) =>
                    /\ log_buffer' = log_buffer
                    /\ selected_index' = Some(neighbour)
                    /\ filter_text' = extract_filter_text(At(log_buffer, neighbour))
                    /\ scroll_offset' < Len(shown)
                    /\ shown[scroll_offset' + 1] = <<neighbour, At(log_buffer, neighbour)>>]_vars

\* An arrow-down key has moved the selection to a line that stands at a
\* position of the filtered display other than its own index
C28_Witness ==
    /\ last_op.op = "Down"
    /\ IsSome(selected_index)
    /\ IsSome(filter_text)
    /\ scroll_offset > 0
    /\ scroll_offset # Unwrap(selected_index)

\* C29: an append that causes no eviction adds the new line's index to the end
\* of filtered_indices if and only if a filter token is active and the new
\* line contains it, and leaves the selection, the filter token, the scroll
\* offset and all earlier buffer entries unchanged.
C29_AppendNoEviction ==
    [][(last_op'.op = "add_log" /\ Len(log_buffer) < Capacity) =>
          LET new_index == Len(log_buffer)
              matches   == /\ IsSome(filter_text)
                           /\ contains(At(log_buffer', new_index), Unwrap(filter_text))
          IN /\ Len(log_buffer') = new_index + 1
             /\ SubSeq(log_buffer', 1, new_index) = log_buffer
             /\ filtered_indices' = IF matches THEN Append(filtered_indices, new_index)
                                    ELSE filtered_indices
             /\ UNCHANGED <<selected_index, filter_text, scroll_offset>>]_vars

\* A line containing the active token was appended without eviction, with a
\* selection and a scroll offset in place
C29_Witness ==
    /\ last_op.op = "add_log"
    /\ last_op.arg < Capacity
    /\ last_op.arg > 0
    /\ IsSome(filter_text)
    /\ IsSome(selected_index)
    /\ filtered_indices # <<>>
    /\ filtered_indices[Len(filtered_indices)] = last_op.arg
    /\ Len(log_buffer) = last_op.arg + 1

\* C30: in every reachable state filtered_indices is strictly increasing,
\* every index in it is less than the buffer length, and every line it refers
\* to contains the active filter token (also after evictions renumbered it).
C30_FilteredIndicesSound ==
    /\ \A j, k \in 1..Len(filtered_indices) :
          j < k => filtered_indices[j] < filtered_indices[k]
    /\ \A k \in 1..Len(filtered_indices) :
          /\ filtered_indices[k] < Len(log_buffer)
          /\ IsSome(filter_text)
          /\ contains(At(log_buffer, filtered_indices[k]), Unwrap(filter_text))

\* Two matching lines are listed after an eviction renumbered them
C30_Witness ==
    /\ last_op.op = "add_log"
    /\ last_op.arg = Capacity
    /\ Len(filtered_indices) >= 2
    /\ IsSome(filter_text)

\* The line shown at the scroll offset of get_display_logs(), if there is one
CurrentLine(st) ==
    LET shown == get_display_logs(st) IN
    IF st.scroll_offset < Len(shown)
    THEN Some(shown[st.scroll_offset + 1][1])
    ELSE None

\* C31: the key 'f' handled with no selection and a non-empty buffer selects
\* the current line, the one shown at the scroll offset of
\* get_display_logs(); handled with a selection set, it clears the selection
\* and the filter.
C31_ToggleSelectsCurrent ==
    [][last_op'.op = "f" =>
          IF IsSome(selected_index)
          THEN /\ selected_index' = None
               /\ filter_text' = None
               /\ filtered_indices' = <<>>
          ELSE (log_buffer # <<>> /\ IsSome(CurrentLine(State)))
                  => selected_index' = CurrentLine(State)]_vars

\* The original indices of get_display_logs()
DisplayedIndices(st) ==
    LET shown == get_display_logs(st) IN {shown[k][1] : k \in 1..Len(shown)}

\* C37: in every reachable state where a selection is set, the selected index
\* appears in get_display_logs(); after select_line(i) has derived a token, i
\* is in filtered_indices and the token is a non-empty substring of line i.
C37_SelectionDisplayed ==
    /\ IsSome(selected_index) => Unwrap(selected_index) \in DisplayedIndices(State)
    /\ (/\ last_op.op = "select_line"
        /\ last_op.arg < Len(log_buffer)
        /\ IsSome(filter_text))
          => /\ IsSome(position(filtered_indices, last_op.arg))
             /\ Unwrap(filter_text) # <<>>
             /\ contains(At(log_buffer, last_op.arg), Unwrap(filter_text))

\* A selected line is shown at a position of the filtered display other than
\* its index, after an eviction renumbered both
C37_Witness ==
    /\ last_op.op = "add_log"
    /\ last_op.arg = Capacity
    /\ IsSome(selected_index)
    /\ IsSome(filter_text)
    /\ Len(filtered_indices) < Len(log_buffer)
    /\ IsSome(position(filtered_indices, Unwrap(selected_index)))
    /\ Unwrap(position(filtered_indices, Unwrap(selected_index))) # Unwrap(selected_index)

\* C38: a set selection keeps referring to the same line text across appends:
\* an append without eviction leaves it alone, and after an append that evicts
\* the oldest line with the selection at s > 0 the line at the new selection
\* index equals the line that was at s before.
C38_SelectionKeepsLine ==
    [][(last_op'.op = "add_log" /\ IsSome(selected_index)) =>
          LET s == Unwrap(selected_index) IN
          IF Len(log_buffer) < Capacity \/ s > 0
          THEN /\ IsSome(selected_index')
               /\ Unwrap(selected_index') < Len(log_buffer')
               /\ At(log_buffer', Unwrap(selected_index')) = At(log_buffer, s)
          ELSE selected_index' = None]_vars

\* An evicting append has moved the selection down by one, onto a line that
\* differs from the line now at the old index
C38_Witness ==
    /\ last_op.op = "add_log"
    /\ last_op.arg = Capacity
    /\ IsSome(selected_index)
    /\ Unwrap(selected_index) + 1 < Len(log_buffer)
    /\ At(log_buffer, Unwrap(selected_index)) # At(log_buffer, Unwrap(selected_index) + 1)

\* C39: in every reachable state, a set filter token or a non-empty
\* filtered_indices implies a set selection.
C39_FilterImpliesSelection ==
    (IsSome(filter_text) \/ filtered_indices # <<>>) => IsSome(selected_index)

----------------------------------------------------------------------------
(* Further properties of the keyboard reader *)

\* Sequences that begin ESC '[' and are none of the four the reader knows
UnrecognizedSequences ==
    {c \in RawChunks : Len(c) >= 2 /\ c[1] = 27 /\ c[2] = 91}

\* C32: an unrecognized or incomplete escape sequence (ESC '[' with a third
\* byte other than 0x41/0x42/0x35/0x36, or 0x35/0x36 without 0x7E, longer
\* terminal sequences included) produces no event: when nothing but such
\* sequences is typed the reader sends nothing, and its loop ends only when
\* the device is closed.
C32_UnrecognizedDropped ==
    (\A k \in 1..Len(typed) : typed[k] \in UnrecognizedSequences)
        => /\ kb_channel = <<>>
           /\ (dec_pc = "exited" /\ IsSome(original_termios)) => tty_closed

\* No read of the reader can return any more: the device is closed and holds
\* fewer bytes than the next iteration reads
StreamEnded == tty_closed /\ Len(tty_in) < bytes_wanted(tty_in)

\* C33: when the terminal byte stream ends, at whatever point of a sequence,
\* the reader sends no further event, its read loop exits and the thread
\* ends (and stays ended).
C33_StreamEndTerminates ==
    /\ [][/\ StreamEnded => kb_channel' = kb_channel
          /\ dec_pc = "exited" => (dec_pc' = "exited" /\ kb_channel' = kb_channel)]_vars
    /\ ((StreamEnded /\ dec_pc = "reading") ~> dec_pc = "exited")

\* The device was closed in the middle of ESC '[' typed after an arrow key:
\* the event of the arrow key is all that was sent and the thread has ended
C33_Witness ==
    /\ typed = <<Encode("Up"), <<27, 91>>>>
    /\ tty_closed
    /\ dec_pc = "exited"
    /\ IsSome(original_termios)
    /\ tty_in = <<>>
    /\ kb_channel = <<KeyUp>>

\* The reader thread has ended before its read loop: File::open, tcgetattr or
\* tcsetattr failed
StartFailed == dec_pc = "exited" /\ IsNone(original_termios)

\* C34: if the reader cannot open the terminal device or cannot query or set
\* its mode, the thread ends without sending an event and without taking the
\* session down: the loop can still iterate, it gets no key event, and it
\* exits once the interrupt flag is set.
C34_StartFailureSurvived ==
    /\ [][/\ (dec_pc = "spawned" /\ dec_pc' = "exited")
                => (loop_pc' = loop_pc /\ kb_channel' = <<>>)
          /\ StartFailed => /\ StartFailed'
                            /\ kb_channel' = <<>>
                            /\ ~should_quit']_vars
    /\ []((StartFailed /\ loop_pc = "running" /\ ~should_quit_signal)
             => ENABLED LoopIteration)
    /\ ((StartFailed /\ loop_pc = "running" /\ should_quit_signal)
             ~> loop_pc = "exited")

\* Keys were typed, the reader failed to start, and the session was left by
\* the interrupt flag
C34_Witness ==
    /\ StartFailed
    /\ typed # <<>>
    /\ tty_in # <<>>
    /\ IsSome(drawn)
    /\ should_quit_signal
    /\ last_op.op = "exit"
    /\ loop_pc = "exited"

----------------------------------------------------------------------------
(* Further properties of the session *)

\* The task that reads stdin has ended, on end of input or on a read error
ReaderEnded == ~stdin_is_tty /\ reader_pc = "done"

\* C35: when the stdin reader ends on end of input or on a read error, the
\* session loop is not affected by that step, no further line is read or
\* queued, the loop can still iterate and handle key events, and once the
\* queued lines are drained the lines of log_buffer stay as they are.
C35_ReaderEndSilent ==
    /\ [][/\ (reader_pc = "reading" /\ reader_pc' = "done")
                => (loop_pc' = loop_pc /\ UNCHANGED <<engine, log_channel, lines_read>>)
          /\ ReaderEnded => /\ ReaderEnded'
                            /\ lines_read' = lines_read
                            /\ Len(log_channel') <= Len(log_channel)
                            /\ log_channel = <<>> => log_buffer' = log_buffer]_vars
    /\ []((ReaderEnded /\ loop_pc = "running" /\ ~should_quit /\ ~should_quit_signal)
             => ENABLED LoopIteration)

\* The reader has ended, every line it read is in log_buffer, and an
\* iteration of the loop has left a line of it selected by the key 'f'
C35_Witness ==
    /\ ReaderEnded
    /\ lines_read # <<>>
    /\ log_channel = <<>>
    /\ Len(log_buffer) = Len(lines_read)
    /\ IsSome(selected_index)
    /\ last_op.op = "iteration"
    /\ loop_pc = "running"

\* C36: for every classifier result selecting an external tool, the loop
\* releases the terminal before the launch and takes it back afterwards, on
\* every outcome: the tool finds the terminal in the mode the session found
\* it in, no thread of the session is reading the terminal meanwhile, and a
\* successful enable_raw_mode leaves it raw again.
C36_TerminalHandedOver ==
    \A k \in 1..Len(tool_runs) :
        /\ tool_runs[k].during = TermiosFlags
        /\ tool_runs[k].reader # "reading"
        /\ tool_runs[k].reenabled => tool_runs[k].after = raw_mode(tool_runs[k].during)

\* The same for sessions whose stdin is the terminal, where no keyboard
\* reader thread exists: this holds.
ToolHandOverOnTerminalStdin == stdin_is_tty => C36_TerminalHandedOver

\* A tool was launched from a session whose stdin is the terminal.
ToolLaunchedOnTerminalStdin == stdin_is_tty /\ tool_runs # <<>>

----------------------------------------------------------------------------
(* The two key handlers of run_tui *)

\* Every key event of kind Press the handlers have an arm for, and some they
\* have none for
KeyEvents ==
    {KeyEvent(code, "", ctrl) :
        code \in {"Up", "Down", "PageUp", "PageDown", "Home", "End", "Esc", "Enter"},
        ctrl \in BOOLEAN}
    \cup {KeyEvent("Char", ch, ctrl) : ch \in {"q", "a", "f", "c", "x"},
                                       ctrl \in BOOLEAN}

\* What a key handler starts from in the current state
BeforeKey ==
    [app |-> State, quit |-> should_quit, response |-> last_model_response,
     spawned |-> 0]

\* C40: for every engine state and every key event, the key handler of the
\* keyboard-reader path and the key handler of the terminal-polling path give
\* the same selection, filter token, filtered_indices, scroll offset, quit
\* flag and analysis request.
C40_HandlersAgree ==
    \A ev \in KeyEvents : session_key(BeforeKey, ev) = terminal_key(BeforeKey, ev)

\* A state in which the handlers have work to do: an arrow key moves the
\* selection under a filter, Ctrl+C quits, 'c' clears, 'a' asks for an analysis
C40_Witness ==
    /\ has_api_key
    /\ IsSome(selected_index)
    /\ Len(filtered_indices) >= 2
    /\ terminal_key(BeforeKey, KeyDown).app.selected_index # selected_index
    /\ terminal_key(BeforeKey, KeyDown).app.scroll_offset # scroll_offset
    /\ terminal_key(BeforeKey, KeyCtrlC).quit
    /\ terminal_key(BeforeKey, KeyChar("c")).app.selected_index = None
    /\ terminal_key(BeforeKey, KeyChar("a")).spawned = 1

====
